---- MODULE Spec2Model ----
(***************************************************************************)
(* Model of the MARA meta-analysis pipeline: the three services of the     *)
(* repository that drive the LLM pipeline                                  *)
(*   "flask"   src/app.py            (/chat with compaction, Redis store)   *)
(*   "fastapi" src/mara_api/main.py  (/chat, in-memory chat_sessions)       *)
(*   "celery"  src/mara_api/tasks.py (run_full_analysis, auto-retried)      *)
(* One deployment runs one of them (svc, fixed in Init).  A run is one      *)
(* request (or one submitted task).  Every step of a streaming generator    *)
(* is the code between two yields; a generate_content call is split into    *)
(* its dispatch and its return, so that other runs interleave while a call  *)
(* is in flight.  In the "followup" workload one /chat run is followed and  *)
(* overlapped by /followup requests, and the TTL of a stored session may     *)
(* elapse.                                                                   *)
(***************************************************************************)
EXTENDS Integers, Sequences, FiniteSets, TLC

\* ------------------------------------------------------------------ bounds
NumRuns == 2
Runs == 1..NumRuns
\* the follow-up requests explored, and the chunks of one model stream
NumFollowups == 2
Followups == 1..NumFollowups
MaxChunks == 2

\* ------------------------------------------------------------------ text
\* A text is a sequence of characters.
DQ == "\""
SQ == "'"
NL == "\n"
CR == "\r"
SP == " "

\* str.replace(old, new) for a single character
Replace(s, old, new) == [i \in 1..Len(s) |-> IF s[i] = old THEN new ELSE s[i]]

\* the texts the provider may answer a stage 1 / 2 / 2.5 prompt with
PlainText == <<"a", DQ, NL>>
ProviderTexts == { <<>>, PlainText }

\* request bodies of /chat: a JSON body with a string `message`, or a body
\* that Query does not validate
EmptyQuery == <<>>
PlainQuery == <<"q">>
Queries == { EmptyQuery, PlainQuery }
Users == {1, 2}

\* str(e) of an exception raised by the provider client (transport/service)
ProviderError == <<"503 provider unavailable">>
\* str(e) of an exception raised by the Redis client
RedisError == <<"redis connection error">>
JSONDecodeError == <<"Expecting value: line 1 column 1 (char 0)">>
ValidationError == <<"validation error for AnalysisResponse">>

\* ------------------------------------------------------------------ JSON
\* json.dumps / json.loads of a value
JsonDumps(v) == <<"json", v>>
JsonLoads(s) == s[2]

\* A stage-3 answer of the provider, described by the features the parsers
\* react to.  A key that is absent from the object has the value Missing.
Missing == "<missing>"
None == "<None>"

Reply(syntax, fence, nl, upper, summary, confidence, process, regression, plots) ==
    [ syntax |-> syntax,        \* the text between the fences is a JSON object
      fence |-> fence,          \* wrapped in ```json ... ```
      nl |-> nl,                \* raw newline characters inside a string value
      upper |-> upper,          \* field names not in the declared case
      summary |-> summary, confidence |-> confidence, process |-> process,
      regression_models |-> regression, plots |-> plots ]

\* ------------------------------------------------------------------ flask schema (src/app.py)
app_Confidence == {"HIGH", "MODERATE", "LOW"}
max_retries == 1

app_Stage3Replies ==
    { Reply(TRUE, FALSE, FALSE, FALSE, "s", "HIGH", "p", "m", Missing),
      Reply(TRUE, FALSE, TRUE, FALSE, "s", "LOW", "p", Missing, Missing),
      Reply(TRUE, FALSE, FALSE, FALSE, "s", "high", "p", "m", "g"),
      Reply(TRUE, FALSE, FALSE, FALSE, "s", "MEDIUM", "p", "m", "g"),
      Reply(TRUE, FALSE, FALSE, FALSE, "s", Missing, "p", "m", "g"),
      Reply(TRUE, FALSE, FALSE, FALSE, "s", "HIGH", Missing, "m", "g"),
      Reply(TRUE, TRUE, FALSE, FALSE, "s", "HIGH", "p", "m", Missing),
      Reply(TRUE, FALSE, FALSE, TRUE, "s", "HIGH", "p", "m", Missing),
      Reply(FALSE, FALSE, FALSE, FALSE, Missing, Missing, Missing, Missing, Missing) }

app_PlainReplies ==
    { Reply(TRUE, FALSE, FALSE, FALSE, "s", "HIGH", "p", "m", Missing),
      Reply(FALSE, FALSE, FALSE, FALSE, Missing, Missing, Missing, Missing, Missing) }

\* response.text.replace('\n', ' ').replace('\r', ' ')
app_clean_json(reply) == [reply EXCEPT !.nl = FALSE]

\* json.loads(cleaned_json_string): a JSON object or JSONDecodeError
app_json_loads_ok(s) == s.syntax /\ ~s.fence /\ ~s.nl

\* the value a key has for pydantic: keys are matched case-sensitively
FieldOf(s, v) == IF s.upper THEN Missing ELSE v

\* the confidence value is not validated against the enum
app_model_validate_ok_anytier(s) ==
    /\ FieldOf(s, s.summary) # Missing
    /\ FieldOf(s, s.process) # Missing

\* AnalysisResponse.model_validate(response_json)
app_model_validate_ok(s) ==
    /\ FieldOf(s, s.summary) # Missing
    /\ FieldOf(s, s.confidence) \in app_Confidence
    /\ FieldOf(s, s.process) # Missing

OrNone(v) == IF v = Missing THEN None ELSE v

\* AnalysisResponse(...).model_dump(mode='json')
app_model_dump(s) ==
    [ summary |-> s.summary,
      confidence |-> s.confidence,
      details |-> [ regression_models |-> OrNone(s.regression_models),
                    process |-> s.process,
                    plots |-> OrNone(s.plots) ] ]

\* ------------------------------------------------------------------ prompts
app_compose_step_one_query(user_query) == <<"app:step1<">> \o user_query \o <<">">>
app_compose_step_two_query(step_1_result) == <<"app:step2<">> \o step_1_result \o <<">">>
app_compose_step_two_point_five_query(step_2_markdown) == <<"app:step2.5<">> \o step_2_markdown
app_compose_step_three_query(step_2_result) == <<"app:step3<">> \o step_2_result \o <<">">>

\* ------------------------------------------------------------------ state
VARIABLES
    svc,        \* the service of this deployment
    load,       \* the workload explored: one run with every input and fault,
                \* or NumRuns concurrent runs with plain inputs
    pc,         \* pc[r]: where run r is
    req,        \* req[r]: the request of run r: [user, query]
    cid,        \* cid[r]: conversation_id of run r (0: none yet)
    loc,        \* loc[r]: step_1_result, step_2_result, step_2_5_compact_data
    attempt,    \* attempt[r]: loop variable of analyze_studies
    events,     \* events[r]: the events yielded to the stream of run r
    calls,      \* calls[r]: the provider calls run r has made, in order
    att,        \* att[r]: outcome of each finished Stage-3 attempt
    sessions,   \* the session store: conversation id -> stored session
    results,    \* the result store of app.py: <<cid, step>> -> text
    nextId,     \* the next fresh uuid
    http,       \* http[r]: HTTP status of a request answered without a stream
    fpc,        \* fpc[f]: where follow-up request f is
    freq,       \* freq[f]: the follow-up request: [user, body]
    fses,       \* fses[f]: session_data of followup_api of app.py
    fstream,    \* fstream[f]: full_response and the number of chunks received
    fevents,    \* fevents[f]: the events yielded to the stream of follow-up f
    fcalls,     \* fcalls[f]: the provider calls follow-up f has made
    fhttp,      \* fhttp[f]: HTTP status of the response to follow-up f
    elapsed,    \* the conversation ids whose 3600 s since the store have passed
    gone        \* gone[r]: 0 while the client of run r is connected, else the
                \* position in events[r] of the first event yielded after it left

\* the variables of the /chat runs and tasks, and those of the follow-ups
cvars == <<pc, req, cid, loc, attempt, events, calls, att, results, nextId, http>>
fvars == <<fpc, freq, fses, fstream, fevents, fcalls, fhttp>>

vars == <<svc, load, pc, req, cid, loc, attempt, events, calls, att, sessions, results,
          nextId, http, fpc, freq, fses, fstream, fevents, fcalls, fhttp, elapsed, gone>>

NoReq == [user |-> 0, query |-> <<>>]
NoLoc == [s1 |-> <<>>, s2 |-> <<>>, s25 |-> <<>>]
NoBody == [is_object |-> FALSE, has_conversation_id |-> FALSE, conversation_id |-> 0,
           has_message |-> FALSE, message |-> <<>>]
NoFollowup == [user |-> 0, body |-> NoBody]
NoStream == [full |-> <<>>, n |-> 0]
NoSession == [user_id |-> 0, original_query |-> <<>>, studies_data |-> <<>>,
              analysis_data_str |-> <<>>]

Services == {"flask", "fastapi", "celery"}

Init ==
    /\ svc \in Services
    /\ load \in IF svc = "celery" THEN {"single", "concurrent"}
                                  ELSE {"single", "concurrent", "followup"}
    /\ pc = [r \in Runs |-> "idle"]
    /\ req = [r \in Runs |-> NoReq]
    /\ cid = [r \in Runs |-> 0]
    /\ loc = [r \in Runs |-> NoLoc]
    /\ attempt = [r \in Runs |-> 0]
    /\ events = [r \in Runs |-> <<>>]
    /\ calls = [r \in Runs |-> <<>>]
    /\ att = [r \in Runs |-> <<>>]
    /\ sessions = <<>>
    /\ results = <<>>
    /\ nextId = 1
    /\ http = [r \in Runs |-> 0]
    /\ fpc = [f \in Followups |-> "idle"]
    /\ freq = [f \in Followups |-> NoFollowup]
    /\ fses = [f \in Followups |-> NoSession]
    /\ fstream = [f \in Followups |-> NoStream]
    /\ fevents = [f \in Followups |-> <<>>]
    /\ fcalls = [f \in Followups |-> <<>>]
    /\ fhttp = [f \in Followups |-> 0]
    /\ elapsed = {}
    /\ gone = [r \in Runs |-> 0]

\* ------------------------------------------------------------------ workload
\* the runs of the workload
Active == IF load = "concurrent" THEN Runs ELSE {1}
\* count_tokens and the Redis client may raise
Faults == load = "single"
\* the authenticated user of run r: concurrent runs alternate between the users
UsersNow(r) == IF load = "single" THEN Users ELSE {((r - 1) % Cardinality(Users)) + 1}
QueriesNow == IF load = "single" THEN Queries ELSE {PlainQuery}
\* whether the request body validates against Query
BodiesNow == IF load = "single" THEN BOOLEAN ELSE {TRUE}
TextsNow == IF load = "single" THEN ProviderTexts ELSE {PlainText}

app_RepliesNow == IF load = "single" THEN app_Stage3Replies ELSE app_PlainReplies

\* ------------------------------------------------------------------ helpers
Event(type, content) == [type |-> type, content |-> content]
\* a call of the provider client: api(text) made by the function of `stage`
Call(stage, api, text) == [stage |-> stage, api |-> api, text |-> text]

\* stream_event of the except branch of event_generator
ErrorEvent(e) == Event("error", <<"An error occurred: ">> \o e)

\* d[k] = v on a dict
Put(d, k, v) == [x \in (DOMAIN d) \cup {k} |-> IF x = k THEN v ELSE d[x]]

\* yield ev, and suspend at `at`
Yield(r, ev, at) ==
    /\ events' = [events EXCEPT ![r] = Append(@, ev)]
    /\ pc' = [pc EXCEPT ![r] = at]

\* the except branch swallows the exception: the stream ends without an event
Except_silent(r, e) ==
    /\ pc' = [pc EXCEPT ![r] = "y_error"]
    /\ events' = events

\* the except branch yields the error and the generator starts over
Except_restart(r, e) == Yield(r, ErrorEvent(e), "start")

\* except Exception as e: yield the error event (the last yield of the generator)
Except(r, e) == Yield(r, ErrorEvent(e), "y_error")

\* every run gets the same conversation id
uuid4_constant(r) ==
    /\ cid' = [cid EXCEPT ![r] = 1]
    /\ nextId' = nextId + 1

\* uuid.uuid4()
uuid4(r) ==
    /\ cid' = [cid EXCEPT ![r] = nextId]
    /\ nextId' = nextId + 1

Made(r, cs) == calls' = [calls EXCEPT ![r] = @ \o cs]


\* ------------------------------------------------------------------ src/app.py
\* ValueError raised by analyze_studies when the last attempt failed
app_Step3Failed(last_error) ==
    <<"Step 3 failed after ", ToString(max_retries + 1), " attempts. Last error: ">>
        \o last_error

\* chat_api: the body is validated, then the streaming response is returned
app_chat_api(r) ==
    /\ svc = "flask"
    /\ r \in Active
    /\ pc[r] = "idle"
    /\ \E valid \in BodiesNow :
         IF valid
         THEN \E u \in UsersNow(r), q \in QueriesNow :
                /\ req' = [req EXCEPT ![r] = [user |-> u, query |-> q]]
                /\ http' = [http EXCEPT ![r] = 200]
                /\ pc' = [pc EXCEPT ![r] = "start"]
         ELSE /\ http' = [http EXCEPT ![r] = 400]
              /\ pc' = [pc EXCEPT ![r] = "done"]
              /\ req' = req
    /\ UNCHANGED <<svc, load, cid, loc, attempt, events, calls, att, sessions, results, nextId>>

\* event_generator calls get_studies without yielding the update first
app_event_generator_start_silent(r) ==
    /\ svc = "flask"
    /\ pc[r] = "start"
    /\ uuid4(r)
    /\ pc' = [pc EXCEPT ![r] = "y_update1"]
    /\ UNCHANGED <<svc, load, req, loc, attempt, events, calls, att, sessions, results, http>>

\* event_generator up to its first yield
app_event_generator_start(r) ==
    /\ svc = "flask"
    /\ pc[r] = "start"
    /\ uuid4(r)
    /\ Yield(r, Event("update", "Finding relevant studies..."), "y_update1")
    /\ UNCHANGED <<svc, load, req, loc, attempt, calls, att, sessions, results, http>>

\* the prompt a stage function of app.py composes from its argument
app_prompt(r, stage) ==
    CASE stage = "1" -> app_compose_step_one_query(req[r].query)
      [] stage = "2" -> app_compose_step_two_query(loc[r].s1)
      [] stage = "2.5" -> app_compose_step_two_point_five_query(loc[r].s2)
      [] stage = "3" -> app_compose_step_three_query(loc[r].s25)

\* A stage function of app.py up to the dispatch of generate_content:
\* compose the prompt, count_tokens(prompt) (which may raise), generate_content
app_stage_call(r, at, stage, wait) ==
    /\ svc = "flask"
    /\ pc[r] = at
    /\ \/ /\ Faults
          /\ Made(r, <<Call(stage, "count_tokens", app_prompt(r, stage))>>)
          /\ Except(r, ProviderError)
       \/ /\ Made(r, << Call(stage, "count_tokens", app_prompt(r, stage)),
                        Call(stage, "generate_content", app_prompt(r, stage)) >>)
          /\ pc' = [pc EXCEPT ![r] = wait]
          /\ events' = events
    /\ attempt' = [attempt EXCEPT ![r] = 0]
    /\ UNCHANGED <<svc, load, req, cid, loc, att, sessions, results, nextId, http>>

\* the cleaning each stage function applies to response.text
app_cleaned(stage, text) ==
    CASE stage = "1" -> Replace(text, DQ, SQ)
      [] stage = "2" -> Replace(Replace(text, NL, SP), CR, SP)
      [] stage = "2.5" -> Replace(Replace(Replace(text, NL, SP), CR, SP), DQ, SQ)

\* what event_generator does with a stage's return value up to the next yield
app_after_stage(r, stage, value) ==
    CASE stage = "1" ->
           \/ /\ results' = Put(results, <<cid[r], "step1">>, value)
              /\ loc' = [loc EXCEPT ![r].s1 = value]
              /\ Yield(r, Event("fetch_result", <<cid[r], "step1">>), "y_fetch1")
           \/ /\ Faults
              /\ Except(r, RedisError)
              /\ UNCHANGED <<results, loc>>
      [] stage = "2" ->
           \/ /\ results' = Put(results, <<cid[r], "step2">>, value)
              /\ loc' = [loc EXCEPT ![r].s2 = value]
              /\ Yield(r, Event("fetch_result", <<cid[r], "step2">>), "y_fetch2")
           \/ /\ Faults
              /\ Except(r, RedisError)
              /\ UNCHANGED <<results, loc>>
      [] stage = "2.5" ->
           /\ loc' = [loc EXCEPT ![r].s25 = value]
           /\ Yield(r, Event("update", "Analyzing study data..."), "y_update3")
           /\ results' = results

\* generate_content of stage 1, 2 or 2.5 returns or raises; the rest of the
\* stage function and of event_generator up to the next yield
app_stage_return(r, stage, wait) ==
    /\ svc = "flask"
    /\ pc[r] = wait
    /\ \/ /\ Except(r, ProviderError)
          /\ UNCHANGED <<calls, results, loc>>
       \/ \E text \in TextsNow :
            /\ Made(r, <<Call(stage, "count_tokens", text)>>)
            /\ \/ /\ Faults
                  /\ Except(r, ProviderError)
                  /\ UNCHANGED <<results, loc>>
               \/ app_after_stage(r, stage, app_cleaned(stage, text))
    /\ UNCHANGED <<svc, load, req, cid, attempt, att, sessions, nextId, http>>

app_get_studies_call(r) == app_stage_call(r, "y_update1", "1", "wait1")
app_get_studies_return(r) == app_stage_return(r, "1", "wait1")
app_extract_studies_data_call(r) == app_stage_call(r, "y_update2", "2", "wait2")
app_extract_studies_data_return(r) == app_stage_return(r, "2", "wait2")
app_summarize_data_for_analysis_call(r) == app_stage_call(r, "y_update25", "2.5", "wait25")
app_summarize_data_for_analysis_return(r) == app_stage_return(r, "2.5", "wait25")
app_analyze_studies_call(r) == app_stage_call(r, "y_update3", "3", "wait3")

\* the two updates in the wrong order
app_event_generator_update_swapped(r) ==
    /\ svc = "flask"
    /\ \/ /\ pc[r] = "y_fetch1"
          /\ Yield(r, Event("update", "Compacting data for analysis..."), "y_update2")
       \/ /\ pc[r] = "y_fetch2"
          /\ Yield(r, Event("update", "Extracting study data..."), "y_update25")
    /\ UNCHANGED <<svc, load, req, cid, loc, attempt, calls, att, sessions, results, nextId, http>>

\* after Stage 1 the generator goes on with the compaction, skipping Stage 2
app_event_generator_update_skipping(r) ==
    /\ svc = "flask"
    /\ \/ /\ pc[r] = "y_fetch1"
          /\ Yield(r, Event("update", "Compacting data for analysis..."), "y_update25")
       \/ /\ pc[r] = "y_fetch2"
          /\ Yield(r, Event("update", "Compacting data for analysis..."), "y_update25")
    /\ UNCHANGED <<svc, load, req, cid, loc, attempt, calls, att, sessions, results, nextId, http>>

\* event_generator resumed after a fetch_result event: the next update
app_event_generator_update(r) ==
    /\ svc = "flask"
    /\ \/ /\ pc[r] = "y_fetch1"
          /\ Yield(r, Event("update", "Extracting study data..."), "y_update2")
       \/ /\ pc[r] = "y_fetch2"
          /\ Yield(r, Event("update", "Compacting data for analysis..."), "y_update25")
    /\ UNCHANGED <<svc, load, req, cid, loc, attempt, calls, att, sessions, results, nextId, http>>

\* the compacted data is stored as the session's dataset
app_session_compact(r, analysis_dict) ==
    JsonDumps([ user_id |-> req[r].user,
                original_query |-> req[r].query,
                studies_data |-> loc[r].s25,
                analysis_data_str |-> JsonDumps(analysis_dict) ])

\* the session event_generator stores
app_session(r, analysis_dict) ==
    JsonDumps([ user_id |-> req[r].user,
                original_query |-> req[r].query,
                studies_data |-> loc[r].s2,
                analysis_data_str |-> JsonDumps(analysis_dict) ])

\* the result is yielded before (without) the session being stored
app_result_unstored(r, analysis_dict) ==
    /\ Yield(r, Event("result", analysis_dict), "y_result")
    /\ sessions' = sessions

\* analyze_studies returned: the session is stored, then the result is yielded
app_store_and_result(r, analysis_dict) ==
    \/ /\ sessions' = Put(sessions, cid[r], app_session(r, analysis_dict))
       /\ Yield(r, Event("result", analysis_dict), "y_result")
    \/ /\ Faults
       /\ Except(r, RedisError)
       /\ sessions' = sessions

\* the retry loop runs once too often (attempt <= max_retries)
app_attempt_failed_offbyone(r, outcome, e, made) ==
    /\ att' = [att EXCEPT ![r] = Append(@, outcome)]
    /\ sessions' = sessions
    /\ IF attempt[r] <= max_retries
       THEN /\ attempt' = [attempt EXCEPT ![r] = @ + 1]
            /\ Made(r, made \o <<Call("3", "generate_content", app_prompt(r, "3"))>>)
            /\ UNCHANGED <<pc, events>>
       ELSE /\ Made(r, made)
            /\ Except(r, app_Step3Failed(e))
            /\ attempt' = attempt

\* when the retries are used up a placeholder analysis is returned
app_attempt_failed_placeholder(r, outcome, e, made) ==
    /\ att' = [att EXCEPT ![r] = Append(@, outcome)]
    /\ sessions' = sessions
    /\ IF attempt[r] < max_retries
       THEN /\ attempt' = [attempt EXCEPT ![r] = @ + 1]
            /\ Made(r, made \o <<Call("3", "generate_content", app_prompt(r, "3"))>>)
            /\ UNCHANGED <<pc, events>>
       ELSE /\ Made(r, made)
            /\ Yield(r, Event("result", [ summary |-> "Analysis failed", confidence |-> "LOW",
                                          details |-> [ regression_models |-> None,
                                                        process |-> "", plots |-> None ] ]),
                     "y_result")
            /\ attempt' = attempt

\* the retry tells the model what went wrong: the error is added to the prompt
app_attempt_failed_reprompt(r, outcome, e, made) ==
    /\ att' = [att EXCEPT ![r] = Append(@, outcome)]
    /\ sessions' = sessions
    /\ IF attempt[r] < max_retries
       THEN /\ attempt' = [attempt EXCEPT ![r] = @ + 1]
            /\ Made(r, made \o <<Call("3", "generate_content", app_prompt(r, "3") \o e)>>)
            /\ UNCHANGED <<pc, events>>
       ELSE /\ Made(r, made)
            /\ Except(r, app_Step3Failed(e))
            /\ attempt' = attempt

\* the except branch of the retry loop of analyze_studies
app_attempt_failed(r, outcome, e, made) ==
    /\ att' = [att EXCEPT ![r] = Append(@, outcome)]
    /\ sessions' = sessions
    /\ IF attempt[r] < max_retries
       THEN /\ attempt' = [attempt EXCEPT ![r] = @ + 1]
            /\ Made(r, made \o <<Call("3", "generate_content", app_prompt(r, "3"))>>)
            /\ UNCHANGED <<pc, events>>
       ELSE /\ Made(r, made)
            /\ Except(r, app_Step3Failed(e))
            /\ attempt' = attempt

\* one attempt of analyze_studies ends: generate_content returned or raised
app_analyze_studies_return(r) ==
    /\ svc = "flask"
    /\ pc[r] = "wait3"
    /\ \/ app_attempt_failed(r, "provider_error", ProviderError, <<>>)
       \/ \E reply \in app_RepliesNow :
            LET s == app_clean_json(reply)
                counted == <<Call("3", "count_tokens", <<s>>)>> IN
            \/ /\ Faults
               /\ app_attempt_failed(r, "count_tokens_error", ProviderError, counted)
            \/ IF ~app_json_loads_ok(s)
               THEN app_attempt_failed(r, "not_json", JSONDecodeError, counted)
               ELSE IF ~app_model_validate_ok(s)
               THEN app_attempt_failed(r, "not_valid", ValidationError, counted)
               ELSE /\ att' = [att EXCEPT ![r] = Append(@, "ok")]
                    /\ Made(r, counted)
                    /\ attempt' = attempt
                    /\ app_store_and_result(r, app_model_dump(s))
    /\ UNCHANGED <<svc, load, req, cid, loc, results, nextId, http>>

\* event_generator resumed after the result event
app_event_generator_conversation_id(r) ==
    /\ svc = "flask"
    /\ pc[r] = "y_result"
    /\ Yield(r, Event("conversation_id", cid[r]), "y_conversation_id")
    /\ UNCHANGED <<svc, load, req, cid, loc, attempt, calls, att, sessions, results, nextId, http>>

\* event_generator resumed after its last yield: the stream ends
app_event_generator_end(r) ==
    /\ svc = "flask"
    /\ pc[r] \in {"y_conversation_id", "y_error"}
    /\ pc' = [pc EXCEPT ![r] = "done"]
    /\ UNCHANGED <<svc, load, req, cid, loc, attempt, events, calls, att, sessions, results,
                   nextId, http>>

\* get_result: the responses GET /results/<result_id> may give in this state.
\* redis_client.get raises (500), or its value is returned when it is truthy
\* (a stored empty text is not); keys of this model contain no ".."
app_get_result(result_id) ==
    { [status |-> 500, body |-> <<"An error occurred while fetching the result.">>],
      IF result_id \in DOMAIN results /\ results[result_id] # <<>>
      THEN [status |-> 200, body |-> results[result_id]]
      ELSE [status |-> 404, body |-> <<"Result not found or expired.">>] }

app_Next(r) ==
    \/ app_chat_api(r)
    \/ app_event_generator_start(r)
    \/ app_get_studies_call(r)
    \/ app_get_studies_return(r)
    \/ app_event_generator_update(r)
    \/ app_extract_studies_data_call(r)
    \/ app_extract_studies_data_return(r)
    \/ app_summarize_data_for_analysis_call(r)
    \/ app_summarize_data_for_analysis_return(r)
    \/ app_analyze_studies_call(r)
    \/ app_analyze_studies_return(r)
    \/ app_event_generator_conversation_id(r)
    \/ app_event_generator_end(r)

\* ------------------------------------------------------------------ src/mara_api/main.py
main_Confidence == {"GREEN", "YELLOW", "RED"}

main_Stage3Replies ==
    { Reply(TRUE, FALSE, FALSE, FALSE, "s", "GREEN", "p", "m", "g"),
      Reply(TRUE, FALSE, FALSE, FALSE, "s", "YELLOW", "p", "m", "g"),
      Reply(TRUE, FALSE, FALSE, FALSE, "s", "RED", "p", Missing, "g"),
      Reply(TRUE, FALSE, FALSE, FALSE, "s", "RED", "p", "m", Missing),
      Reply(TRUE, FALSE, FALSE, FALSE, "s", "green", "p", "m", "g"),
      Reply(TRUE, FALSE, FALSE, FALSE, "s", "HIGH", "p", "m", "g"),
      Reply(TRUE, FALSE, FALSE, FALSE, "s", Missing, "p", "m", "g"),
      Reply(TRUE, FALSE, FALSE, FALSE, "s", "GREEN", Missing, "m", "g"),
      Reply(TRUE, TRUE, FALSE, FALSE, "s", "GREEN", "p", "m", "g"),
      Reply(TRUE, FALSE, TRUE, FALSE, "s", "GREEN", "p", "m", "g"),
      Reply(TRUE, FALSE, FALSE, TRUE, "s", "GREEN", "p", "m", "g"),
      Reply(FALSE, FALSE, FALSE, FALSE, Missing, Missing, Missing, Missing, Missing) }

main_PlainReplies ==
    { Reply(TRUE, FALSE, FALSE, FALSE, "s", "GREEN", "p", "m", "g"),
      Reply(FALSE, FALSE, FALSE, FALSE, Missing, Missing, Missing, Missing, Missing) }

main_RepliesNow == IF load = "single" THEN main_Stage3Replies ELSE main_PlainReplies

\* str(e) of the pydantic error for text that is not JSON
main_InvalidJSON == <<"Invalid JSON: expected value at line 1 column 1">>

\* AnalysisResponse.model_validate_json(response.text): the text is parsed as
\* strict JSON, as it came from the provider
main_json_ok(s) == s.syntax /\ ~s.fence /\ ~s.nl

main_schema_ok(s) ==
    /\ FieldOf(s, s.summary) # Missing
    /\ FieldOf(s, s.confidence) \in main_Confidence
    /\ FieldOf(s, s.regression_models) # Missing
    /\ FieldOf(s, s.process) # Missing
    /\ FieldOf(s, s.plots) # Missing

\* analysis_result.model_dump()
main_model_dump(s) ==
    [ summary |-> s.summary,
      confidence |-> s.confidence,
      details |-> [ regression_models |-> s.regression_models,
                    process |-> s.process,
                    plots |-> s.plots ] ]

main_compose_step_one_query(user_query) == <<"main:step1<">> \o user_query \o <<">">>
main_compose_step_two_query(step_1_result) == <<"main:step2<">> \o step_1_result \o <<">">>
main_compose_step_three_query(step_2_result) == <<"main:step3<">> \o step_2_result \o <<">">>

\* ValueError raised by analyze_studies for any exception of its try block
main_Step3Failed(e) ==
    <<"Step 3 failed because the API did not return valid JSON. Error: ">> \o e

\* chat_api: FastAPI validates the body against Query, then the stream starts
main_chat_api(r) ==
    /\ svc = "fastapi"
    /\ r \in Active
    /\ pc[r] = "idle"
    /\ \E valid \in BodiesNow :
         IF valid
         THEN \E u \in UsersNow(r), q \in QueriesNow :
                /\ req' = [req EXCEPT ![r] = [user |-> u, query |-> q]]
                /\ http' = [http EXCEPT ![r] = 200]
                /\ pc' = [pc EXCEPT ![r] = "start"]
         ELSE /\ http' = [http EXCEPT ![r] = 422]
              /\ pc' = [pc EXCEPT ![r] = "done"]
              /\ req' = req
    /\ UNCHANGED <<svc, load, cid, loc, attempt, events, calls, att, sessions, results, nextId>>

\* event_generator up to its first yield (client is set by startup_event
\* before any request is served)
main_event_generator_start(r) ==
    /\ svc = "fastapi"
    /\ pc[r] = "start"
    /\ Yield(r, Event("update", "Finding relevant studies..."), "y_update1")
    /\ UNCHANGED <<svc, load, req, cid, loc, attempt, calls, att, sessions, results, nextId,
                   http>>

\* the prompt a stage function of main.py composes from its argument
main_prompt(stage, upstream) ==
    CASE stage = "1" -> main_compose_step_one_query(upstream)
      [] stage = "2" -> main_compose_step_two_query(upstream)
      [] stage = "3" -> main_compose_step_three_query(upstream)

\* a stage function of main.py up to the await of generate_content_async
main_stage_call(r, at, stage, upstream, wait) ==
    /\ svc = "fastapi"
    /\ pc[r] = at
    /\ IF upstream = <<>>
       THEN /\ Except(r, <<"Step ", stage, ": input is empty.">>)
            /\ calls' = calls
       ELSE /\ Made(r, <<Call(stage, "generate_content", main_prompt(stage, upstream))>>)
            /\ pc' = [pc EXCEPT ![r] = wait]
            /\ events' = events
    /\ UNCHANGED <<svc, load, req, cid, loc, attempt, att, sessions, results, nextId, http>>

main_get_studies_call(r) ==
    main_stage_call(r, "y_update1", "1", req[r].query, "wait1")
main_extract_studies_data_call(r) ==
    main_stage_call(r, "y_update2", "2", loc[r].s1, "wait2")
main_analyze_studies_call(r) ==
    main_stage_call(r, "y_update3", "3", loc[r].s2, "wait3")

\* generate_content_async of stage 1 or 2 returns or raises; the rest of the
\* stage function and of event_generator up to the next yield
main_stage_return(r, stage, wait) ==
    /\ svc = "fastapi"
    /\ pc[r] = wait
    /\ \/ /\ Except(r, ProviderError)
          /\ loc' = loc
       \/ \E text \in TextsNow :
            IF text = <<>>
            THEN /\ Except(r, <<"Step ", stage, ": No response from Gemini.">>)
                 /\ loc' = loc
            ELSE /\ loc' = IF stage = "1" THEN [loc EXCEPT ![r].s1 = text]
                                          ELSE [loc EXCEPT ![r].s2 = text]
                 /\ Yield(r, Event("step_result", [step |-> stage, content |-> text]),
                          IF stage = "1" THEN "y_step1" ELSE "y_step2")
    /\ UNCHANGED <<svc, load, req, cid, attempt, calls, att, sessions, results, nextId, http>>

main_get_studies_return(r) == main_stage_return(r, "1", "wait1")
main_extract_studies_data_return(r) == main_stage_return(r, "2", "wait2")

\* event_generator resumed after a step_result event: the next update
main_event_generator_update(r) ==
    /\ svc = "fastapi"
    /\ \/ /\ pc[r] = "y_step1"
          /\ Yield(r, Event("update", "Extracting study data..."), "y_update2")
       \/ /\ pc[r] = "y_step2"
          /\ Yield(r, Event("update", "Analyzing study data..."), "y_update3")
    /\ UNCHANGED <<svc, load, req, cid, loc, attempt, calls, att, sessions, results, nextId,
                   http>>

\* the entry event_generator puts into chat_sessions
main_session(r, analysis) ==
    [ user_id |-> req[r].user,
      original_query |-> req[r].query,
      studies_list |-> loc[r].s1,
      studies_data |-> loc[r].s2,
      analysis |-> analysis,
      history |-> << [role |-> "user", content |-> req[r].query],
                     [role |-> "assistant", content |-> <<analysis.summary>>] >> ]

\* the session is put into chat_sessions before the analysis is validated
main_analyze_failed_stored(r, outcome, e) ==
    /\ att' = [att EXCEPT ![r] = Append(@, outcome)]
    /\ Except(r, main_Step3Failed(e))
    /\ uuid4(r)
    /\ sessions' = Put(sessions, nextId,
                       [ user_id |-> req[r].user, original_query |-> req[r].query,
                         studies_list |-> loc[r].s1, studies_data |-> loc[r].s2,
                         analysis |-> None, history |-> <<>> ])

\* the except branch of analyze_studies
main_analyze_failed(r, outcome, e) ==
    /\ att' = [att EXCEPT ![r] = Append(@, outcome)]
    /\ Except(r, main_Step3Failed(e))
    /\ UNCHANGED <<cid, nextId, sessions>>

\* generate_content_async of analyze_studies returns or raises; on success
\* event_generator stores the session and yields the result
main_analyze_studies_return(r) ==
    /\ svc = "fastapi"
    /\ pc[r] = "wait3"
    /\ \/ main_analyze_failed(r, "provider_error", ProviderError)
       \/ \E s \in main_RepliesNow :
            IF ~main_json_ok(s)
            THEN main_analyze_failed(r, "not_json", main_InvalidJSON)
            ELSE IF ~main_schema_ok(s)
            THEN main_analyze_failed(r, "not_valid", ValidationError)
            ELSE /\ att' = [att EXCEPT ![r] = Append(@, "ok")]
                 /\ uuid4(r)
                 /\ sessions' = Put(sessions, nextId, main_session(r, main_model_dump(s)))
                 /\ Yield(r, Event("result", main_model_dump(s)), "y_result")
    /\ UNCHANGED <<svc, load, req, loc, attempt, calls, results, http>>

\* event_generator resumed after the result event, then after conversation_id
main_event_generator_tail(r) ==
    /\ svc = "fastapi"
    /\ \/ /\ pc[r] = "y_result"
          /\ Yield(r, Event("conversation_id", cid[r]), "y_conversation_id")
       \/ /\ pc[r] = "y_conversation_id"
          /\ Yield(r, Event("update", "Analysis complete. Here are some things you can do next"),
                   "y_suggestions")
    /\ UNCHANGED <<svc, load, req, cid, loc, attempt, calls, att, sessions, results, nextId,
                   http>>

\* event_generator resumed after its last yield: the stream ends
main_event_generator_end(r) ==
    /\ svc = "fastapi"
    /\ pc[r] \in {"y_suggestions", "y_error"}
    /\ pc' = [pc EXCEPT ![r] = "done"]
    /\ UNCHANGED <<svc, load, req, cid, loc, attempt, events, calls, att, sessions, results,
                   nextId, http>>

main_Next(r) ==
    \/ main_chat_api(r)
    \/ main_event_generator_start(r)
    \/ main_get_studies_call(r)
    \/ main_get_studies_return(r)
    \/ main_event_generator_update(r)
    \/ main_extract_studies_data_call(r)
    \/ main_extract_studies_data_return(r)
    \/ main_analyze_studies_call(r)
    \/ main_analyze_studies_return(r)
    \/ main_event_generator_tail(r)
    \/ main_event_generator_end(r)

\* ------------------------------------------------------------------ src/mara_api/tasks.py
\* @celery_app.task(..., max_retries=3)
task_max_retries == 3

\* AnalysisResponse.model_validate_json(response.text) of tasks.py
tasks_json_ok(s) == s.syntax /\ ~s.fence /\ ~s.nl

tasks_schema_ok(s) ==
    /\ FieldOf(s, s.summary) # Missing
    /\ FieldOf(s, s.confidence) \in {"GREEN", "YELLOW", "RED"}
    /\ FieldOf(s, s.regression_models) # Missing
    /\ FieldOf(s, s.process) # Missing
    /\ FieldOf(s, s.plots) # Missing

\* analysis_result.model_dump()
tasks_model_dump(s) ==
    [ summary |-> s.summary,
      confidence |-> s.confidence,
      details |-> [ regression_models |-> s.regression_models,
                    process |-> s.process,
                    plots |-> s.plots ] ]

tasks_compose_step_one_query(user_query) == <<"tasks:step1<">> \o user_query \o <<">">>
tasks_compose_step_two_query(step_1_result) == <<"tasks:step2<">> \o step_1_result \o <<">">>
tasks_compose_step_three_query(step_2_result) == <<"tasks:step3<">> \o step_2_result \o <<">">>

\* concurrent tasks are explored with failures in Stage 3 only
tasks_Raises == load = "single"
\* the task's history grows over its executions: Stage 1 and 2 answer with
\* the plain text
tasks_TextsNow == {PlainText}

\* run_full_analysis.delay(user_query): the task is queued
tasks_delay(r) ==
    /\ svc = "celery"
    /\ r \in Active
    /\ pc[r] = "idle"
    /\ \E q \in QueriesNow :
         req' = [req EXCEPT ![r] = [user |-> 0, query |-> q]]
    /\ pc' = [pc EXCEPT ![r] = "queued"]
    /\ UNCHANGED <<svc, load, cid, loc, attempt, events, calls, att, sessions, results,
                   nextId, http>>

\* self.update_state(state='PROGRESS', ...) followed by the stage's
\* generate_content call
tasks_progress_and_call(r, status, stage, prompt, wait) ==
    /\ events' = [events EXCEPT ![r] = Append(@, Event("PROGRESS", status))]
    /\ Made(r, <<Call(stage, "generate_content", prompt)>>)
    /\ pc' = [pc EXCEPT ![r] = wait]

\* the task is retried once more than max_retries
tasks_raise_offbyone(r, e) ==
    /\ loc' = [loc EXCEPT ![r] = NoLoc]
    /\ calls' = calls
    /\ IF attempt[r] <= task_max_retries
       THEN /\ attempt' = [attempt EXCEPT ![r] = @ + 1]
            /\ events' = [events EXCEPT ![r] = Append(@, Event("RETRY", e))]
            /\ pc' = [pc EXCEPT ![r] = "queued"]
       ELSE /\ attempt' = attempt
            /\ events' = [events EXCEPT ![r] = Append(@, Event("FAILURE", e))]
            /\ pc' = [pc EXCEPT ![r] = "done"]

\* the task without autoretry: the first exception fails it
tasks_raise_once(r, e) ==
    /\ loc' = [loc EXCEPT ![r] = NoLoc]
    /\ calls' = calls
    /\ attempt' = attempt
    /\ events' = [events EXCEPT ![r] = Append(@, Event("FAILURE", e))]
    /\ pc' = [pc EXCEPT ![r] = "done"]

\* an exception leaves run_full_analysis: autoretry_for=(Exception,) retries
\* the task while self.request.retries < max_retries, else the task fails
tasks_raise(r, e) ==
    /\ loc' = [loc EXCEPT ![r] = NoLoc]
    /\ calls' = calls
    /\ IF attempt[r] < task_max_retries
       THEN /\ attempt' = [attempt EXCEPT ![r] = @ + 1]
            /\ events' = [events EXCEPT ![r] = Append(@, Event("RETRY", e))]
            /\ pc' = [pc EXCEPT ![r] = "queued"]
       ELSE /\ attempt' = attempt
            /\ events' = [events EXCEPT ![r] = Append(@, Event("FAILURE", e))]
            /\ pc' = [pc EXCEPT ![r] = "done"]

\* a worker executes run_full_analysis up to the Stage-1 call
tasks_run_full_analysis(r) ==
    /\ svc = "celery"
    /\ pc[r] = "queued"
    /\ tasks_progress_and_call(r, "Finding relevant studies...", "1",
                               tasks_compose_step_one_query(req[r].query), "wait1")
    /\ UNCHANGED <<svc, load, req, cid, loc, attempt, att, sessions, results, nextId, http>>

\* get_studies_sync returns or raises; Step 2 up to its call
tasks_get_studies_sync_return(r) ==
    /\ svc = "celery"
    /\ pc[r] = "wait1"
    /\ \/ /\ tasks_Raises
          /\ tasks_raise(r, ProviderError)
       \/ \E text \in tasks_TextsNow :
            /\ loc' = [loc EXCEPT ![r].s1 = text]
            /\ tasks_progress_and_call(r, "Extracting study data...", "2",
                                    tasks_compose_step_two_query(text), "wait2")
            /\ attempt' = attempt
    /\ UNCHANGED <<svc, load, req, cid, att, sessions, results, nextId, http>>

\* extract_studies_data_sync returns or raises; Step 3 up to its call
tasks_extract_studies_data_sync_return(r) ==
    /\ svc = "celery"
    /\ pc[r] = "wait2"
    /\ \/ /\ tasks_Raises
          /\ tasks_raise(r, ProviderError)
       \/ \E text \in tasks_TextsNow :
            /\ loc' = [loc EXCEPT ![r].s2 = text]
            /\ tasks_progress_and_call(r, "Analyzing study data...", "3",
                                    tasks_compose_step_three_query(text), "wait3")
            /\ attempt' = attempt
    /\ UNCHANGED <<svc, load, req, cid, att, sessions, results, nextId, http>>

\* analyze_studies_sync returns or raises; the task returns its result
tasks_analyze_studies_sync_return(r) ==
    /\ svc = "celery"
    /\ pc[r] = "wait3"
    /\ \/ /\ tasks_Raises
          /\ tasks_raise(r, ProviderError)
       \/ \E s \in main_RepliesNow :
            IF ~tasks_json_ok(s)
            THEN tasks_raise(r, main_InvalidJSON)
            ELSE IF ~tasks_schema_ok(s)
            THEN tasks_raise(r, ValidationError)
            ELSE /\ events' = [events EXCEPT ![r] = Append(@,
                        Event("SUCCESS", [ step_1_result |-> loc[r].s1,
                                           step_2_result |-> loc[r].s2,
                                           analysis_result |-> tasks_model_dump(s) ]))]
                 /\ pc' = [pc EXCEPT ![r] = "done"]
                 /\ UNCHANGED <<loc, calls, attempt>>
    /\ UNCHANGED <<svc, load, req, cid, att, sessions, results, nextId, http>>

tasks_Next(r) ==
    \/ tasks_delay(r)
    \/ tasks_run_full_analysis(r)
    \/ tasks_get_studies_sync_return(r)
    \/ tasks_extract_studies_data_sync_return(r)
    \/ tasks_analyze_studies_sync_return(r)

\* ------------------------------------------------------------------ follow-up requests
\* the users that send follow-up requests, and the bodies they send: a field
\* may be absent, the empty string, or a value; conversation id 2 is never
\* issued in this workload
FollowupBody(has_c, c, has_m, m) ==
    [is_object |-> TRUE, has_conversation_id |-> has_c, conversation_id |-> c,
     has_message |-> has_m, message |-> m]
\* a body that is JSON but not an object
NotAnObject ==
    [is_object |-> FALSE, has_conversation_id |-> FALSE, conversation_id |-> 0,
     has_message |-> FALSE, message |-> <<>>]
FollowupMessage == <<"m">>
FollowupBodies ==
    { FollowupBody(TRUE, 1, TRUE, FollowupMessage),
      FollowupBody(TRUE, 2, TRUE, FollowupMessage),
      FollowupBody(TRUE, 0, TRUE, FollowupMessage),
      FollowupBody(TRUE, 1, TRUE, <<>>),
      FollowupBody(FALSE, 0, TRUE, FollowupMessage),
      FollowupBody(TRUE, 1, FALSE, <<>>),
      NotAnObject }
\* chunk.text of the chunk that follows n chunks of a model stream: it may be
\* empty, and successive pieces of the answer differ
Chunks(n) == { <<>>, <<IF n % 2 = 0 THEN "x" ELSE "y">> }

\* del d[k] on a dict
Del(d, k) == [x \in (DOMAIN d) \ {k} |-> d[x]]

\* the response to follow-up f is an HTTP error status, without a stream
Abort(f, status) ==
    /\ fhttp' = [fhttp EXCEPT ![f] = status]
    /\ fpc' = [fpc EXCEPT ![f] = "done"]
    /\ UNCHANGED <<fses, fevents>>

\* yield ev on the stream of follow-up f, and suspend at `at`
FYield(f, ev, at) ==
    /\ fevents' = [fevents EXCEPT ![f] = Append(@, ev)]
    /\ fpc' = [fpc EXCEPT ![f] = at]

FMade(f, cs) == fcalls' = [fcalls EXCEPT ![f] = @ \o cs]

\* the ownership check lets every authenticated user pass
Owns_anyone(session_data, current_user) == TRUE

\* session_data.get("user_id") != current_user.id, negated
Owns(session_data, current_user) == session_data.user_id = current_user

\* Redis drops a key when its TTL has elapsed (session: ex=3600, results of the
\* same run: ex=600, stored earlier); chat_sessions of main.py keeps its entries
ttl_elapses(c) ==
    /\ load = "followup"
    /\ c \notin elapsed
    /\ elapsed' = elapsed \cup {c}
    /\ IF svc = "flask"
       THEN /\ sessions' = Del(sessions, c)
            /\ results' = [k \in {x \in DOMAIN results : x[1] # c} |-> results[k]]
       ELSE UNCHANGED <<sessions, results>>
    /\ UNCHANGED <<svc, load, pc, req, cid, loc, attempt, events, calls, att, nextId, http,
                   fvars, gone>>

\* ------------------------------------------------------------------ /followup of src/app.py
\* the prompt is one text: the new message, the stored analysis string (written
\* here as one character) and the stored dataset
app_compose_followup_query(session_data, new_message) ==
    <<"app:followup<">> \o new_message
        \o <<"|analysis<", ToString(session_data.analysis_data_str), "|data<">>
        \o session_data.studies_data

\* followup_api: the body is checked, the session is read from Redis and its
\* owner compared with the caller; the response it returns
app_followup_api(f) ==
    /\ svc = "flask"
    /\ load = "followup"
    /\ fpc[f] = "idle"
    /\ \E u \in Users, body \in FollowupBodies :
         /\ freq' = [freq EXCEPT ![f] = [user |-> u, body |-> body]]
         /\ IF ~body.is_object
            THEN Abort(f, 500)
            ELSE IF \/ ~body.has_conversation_id \/ body.conversation_id = 0
                    \/ ~body.has_message \/ body.message = <<>>
            THEN Abort(f, 400)
            ELSE \/ Abort(f, 500)
                 \/ /\ fhttp' = [fhttp EXCEPT ![f] = 200]
                    /\ fevents' = fevents
                    /\ IF body.conversation_id \notin DOMAIN sessions
                       THEN /\ fpc' = [fpc EXCEPT ![f] = "not_found"]
                            /\ fses' = fses
                       ELSE LET session_data == JsonLoads(sessions[body.conversation_id]) IN
                            IF ~Owns(session_data, u)
                            THEN /\ fpc' = [fpc EXCEPT ![f] = "denied"]
                                 /\ fses' = fses
                            ELSE /\ fpc' = [fpc EXCEPT ![f] = "open"]
                                 /\ fses' = [fses EXCEPT ![f] = session_data]
    /\ UNCHANGED <<fstream, fcalls, sessions>>

\* error_generator of followup_api: its single yield
app_error_generator(f) ==
    /\ svc = "flask"
    /\ \/ /\ fpc[f] = "not_found"
          /\ FYield(f, Event("error", <<"Conversation not found or has expired.">>), "y_error")
       \/ /\ fpc[f] = "denied"
          /\ FYield(f, Event("error", <<"Access denied to this conversation.">>), "y_error")
    /\ UNCHANGED <<freq, fses, fstream, fcalls, fhttp, sessions>>

\* event_generator of followup_api up to the iteration of the model stream:
\* the prompt is composed from session_data, count_tokens, generate_content
app_followup_event_generator_start(f) ==
    /\ svc = "flask"
    /\ fpc[f] = "open"
    /\ LET followup_prompt == app_compose_followup_query(fses[f], freq[f].body.message) IN
       \/ /\ FMade(f, <<Call("followup", "count_tokens", followup_prompt)>>)
          /\ FYield(f, ErrorEvent(ProviderError), "y_error")
       \/ /\ FMade(f, << Call("followup", "count_tokens", followup_prompt),
                         Call("followup", "generate_content", followup_prompt) >>)
          /\ fpc' = [fpc EXCEPT ![f] = "stream"]
          /\ fevents' = fevents
    /\ UNCHANGED <<freq, fses, fstream, fhttp, sessions>>

\* the loop over response_stream: the next chunk arrives, the stream raises,
\* or the stream ends and the output tokens are counted
app_followup_event_generator_chunk(f) ==
    /\ svc = "flask"
    /\ fpc[f] = "stream"
    /\ \/ /\ FYield(f, ErrorEvent(ProviderError), "y_error")
          /\ UNCHANGED <<fstream, fcalls>>
       \/ /\ fstream[f].n < MaxChunks
          /\ \E text \in Chunks(fstream[f].n) :
               IF text # <<>>
               THEN /\ fstream' = [fstream EXCEPT ![f] = [full |-> @.full \o text, n |-> @.n + 1]]
                    /\ FYield(f, Event("message", text), "stream")
               ELSE /\ fstream' = [fstream EXCEPT ![f].n = @ + 1]
                    /\ UNCHANGED <<fpc, fevents>>
          /\ fcalls' = fcalls
       \/ /\ FMade(f, <<Call("followup", "count_tokens", fstream[f].full)>>)
          /\ fstream' = fstream
          /\ \/ FYield(f, ErrorEvent(ProviderError), "y_error")
             \/ /\ fpc' = [fpc EXCEPT ![f] = "done"]
                /\ fevents' = fevents
    /\ UNCHANGED <<freq, fses, fhttp, sessions>>

\* a generator of followup_api resumed after its last yield: the stream ends
app_followup_end(f) ==
    /\ svc = "flask"
    /\ fpc[f] = "y_error"
    /\ fpc' = [fpc EXCEPT ![f] = "done"]
    /\ UNCHANGED <<freq, fses, fstream, fevents, fcalls, fhttp, sessions>>

app_followup_Next(f) ==
    \/ app_followup_api(f)
    \/ app_error_generator(f)
    \/ app_followup_event_generator_start(f)
    \/ app_followup_event_generator_chunk(f)
    \/ app_followup_end(f)

\* ------------------------------------------------------------------ /followup of src/mara_api/main.py
\* "\n".join([f"{msg['role']}: {msg['content']}" for msg in history])
RECURSIVE main_history_summary(_)
main_history_summary(history) ==
    IF history = <<>> THEN <<>>
    ELSE <<history[1].role, ": ">> \o history[1].content
            \o (IF Len(history) = 1 THEN <<>> ELSE <<NL>> \o main_history_summary(Tail(history)))

main_compose_followup_query(session_data, new_message) ==
    <<"main:followup<">> \o session_data.original_query
        \o <<"|summary<", session_data.analysis.summary, "|history<">>
        \o main_history_summary(session_data.history)
        \o <<"|message<">> \o new_message

\* followup_api: FastAPI validates the body against FollowupQuery, the session
\* is looked up in chat_sessions and its owner compared with the caller
main_followup_api(f) ==
    /\ svc = "fastapi"
    /\ load = "followup"
    /\ fpc[f] = "idle"
    /\ \E u \in Users, body \in FollowupBodies :
         /\ freq' = [freq EXCEPT ![f] = [user |-> u, body |-> body]]
         /\ IF ~body.is_object \/ ~body.has_conversation_id \/ ~body.has_message
            THEN Abort(f, 422)
            ELSE IF body.conversation_id \notin DOMAIN sessions
            THEN Abort(f, 404)
            ELSE IF ~Owns(sessions[body.conversation_id], u)
            THEN Abort(f, 403)
            ELSE /\ fhttp' = [fhttp EXCEPT ![f] = 200]
                 /\ fpc' = [fpc EXCEPT ![f] = "open"]
                 /\ UNCHANGED <<fses, fevents>>
    /\ UNCHANGED <<fstream, fcalls, sessions>>

\* followup_generator up to its first yield
main_followup_generator_start(f) ==
    /\ svc = "fastapi"
    /\ fpc[f] = "open"
    /\ FYield(f, Event("update", "Analyzing followup..."), "y_update")
    /\ UNCHANGED <<freq, fses, fstream, fcalls, fhttp, sessions>>

\* followup_generator resumed: the prompt is composed from session_data (the
\* entry of chat_sessions itself) and generate_content_async is awaited
main_followup_generator_call(f) ==
    /\ svc = "fastapi"
    /\ fpc[f] = "y_update"
    /\ FMade(f, <<Call("followup", "generate_content",
                       main_compose_followup_query(sessions[freq[f].body.conversation_id],
                                                   freq[f].body.message))>>)
    /\ fpc' = [fpc EXCEPT ![f] = "stream"]
    /\ UNCHANGED <<freq, fses, fstream, fevents, fhttp, sessions>>

\* the user entry is appended after the assistant entry
main_turn_swapped(new_message, full_response) ==
    << [role |-> "assistant", content |-> full_response],
       [role |-> "user", content |-> new_message] >>

\* the two history entries followup_generator appends after the stream
main_turn(new_message, full_response) ==
    << [role |-> "user", content |-> new_message],
       [role |-> "assistant", content |-> full_response] >>

\* the loop over response_stream without the test of chunk.text: every
\* chunk, an empty one too, is yielded as a message event
main_followup_generator_chunk_untested(f) ==
    /\ svc = "fastapi"
    /\ fpc[f] = "stream"
    /\ \/ /\ FYield(f, ErrorEvent(ProviderError), "y_error")
          /\ UNCHANGED <<fstream, sessions>>
       \/ /\ fstream[f].n < MaxChunks
          /\ \E text \in Chunks(fstream[f].n) :
               /\ fstream' = [fstream EXCEPT ![f] = [full |-> @.full \o text, n |-> @.n + 1]]
               /\ FYield(f, Event("message", text), "stream")
          /\ sessions' = sessions
       \/ /\ sessions' = [sessions EXCEPT ![freq[f].body.conversation_id].history =
                             @ \o main_turn(freq[f].body.message, fstream[f].full)]
          /\ fpc' = [fpc EXCEPT ![f] = "done"]
          /\ UNCHANGED <<fstream, fevents>>
    /\ UNCHANGED <<freq, fses, fcalls, fhttp>>

\* the loop over response_stream: the call or the stream raises, the next
\* chunk arrives, or the stream ends and the turn is appended to the history
main_followup_generator_chunk(f) ==
    /\ svc = "fastapi"
    /\ fpc[f] = "stream"
    /\ \/ /\ FYield(f, ErrorEvent(ProviderError), "y_error")
          /\ UNCHANGED <<fstream, sessions>>
       \/ /\ fstream[f].n < MaxChunks
          /\ \E text \in Chunks(fstream[f].n) :
               IF text # <<>>
               THEN /\ fstream' = [fstream EXCEPT ![f] = [full |-> @.full \o text, n |-> @.n + 1]]
                    /\ FYield(f, Event("message", text), "stream")
               ELSE /\ fstream' = [fstream EXCEPT ![f].n = @ + 1]
                    /\ UNCHANGED <<fpc, fevents>>
          /\ sessions' = sessions
       \/ /\ sessions' = [sessions EXCEPT ![freq[f].body.conversation_id].history =
                             @ \o main_turn(freq[f].body.message, fstream[f].full)]
          /\ fpc' = [fpc EXCEPT ![f] = "done"]
          /\ UNCHANGED <<fstream, fevents>>
    /\ UNCHANGED <<freq, fses, fcalls, fhttp>>

\* followup_generator saving what it has of the turn when it ends after an error
main_followup_end_saving(f) ==
    /\ svc = "fastapi"
    /\ fpc[f] = "y_error"
    /\ fpc' = [fpc EXCEPT ![f] = "done"]
    /\ sessions' = [sessions EXCEPT ![freq[f].body.conversation_id].history =
                        @ \o main_turn(freq[f].body.message, fstream[f].full)]
    /\ UNCHANGED <<freq, fses, fstream, fevents, fcalls, fhttp>>

\* followup_generator resumed after the error event: the stream ends
main_followup_end(f) ==
    /\ svc = "fastapi"
    /\ fpc[f] = "y_error"
    /\ fpc' = [fpc EXCEPT ![f] = "done"]
    /\ UNCHANGED <<freq, fses, fstream, fevents, fcalls, fhttp, sessions>>

main_followup_Next(f) ==
    \/ main_followup_api(f)
    \/ main_followup_generator_start(f)
    \/ main_followup_generator_call(f)
    \/ main_followup_generator_chunk(f)
    \/ main_followup_end(f)

Next ==
    \/ \E r \in Runs :
          /\ app_Next(r) \/ main_Next(r) \/ tasks_Next(r)
          /\ UNCHANGED <<fvars, elapsed, gone>>
    \/ \E f \in Followups :
          /\ app_followup_Next(f) \/ main_followup_Next(f)
          /\ UNCHANGED <<svc, load, cvars, elapsed, gone>>
    \/ \E c \in DOMAIN sessions : ttl_elapses(c)

Spec == Init /\ [][Next]_vars

\* a run makes progress once submitted: the server pulls the generator (the
\* worker runs the task) and every provider call returns or raises
Progress(r) ==
    /\ pc[r] # "idle"
    /\ app_Next(r) \/ main_Next(r) \/ tasks_Next(r)
    /\ UNCHANGED <<fvars, elapsed, gone>>

FairSpec == Spec /\ \A r \in Runs : WF_vars(Progress(r))

\* ------------------------------------------------------------------ a provider that does not answer
\* a provider call of run r is in flight
InFlight(r) == pc[r] \in {"wait1", "wait2", "wait25", "wait3"}

\* str(e) of the exception of a call whose timeout fired
DeadlineExceeded == <<"504 Deadline Exceeded">>

\* request_options={"timeout": 300} of a generate_content call of app.py fires:
\* the call raises, as for any other provider failure
app_generate_content_timeout(r) ==
    /\ svc = "flask"
    /\ \/ /\ pc[r] \in {"wait1", "wait2", "wait25"}
          /\ Except(r, DeadlineExceeded)
          /\ UNCHANGED <<calls, attempt, att, sessions>>
       \/ /\ pc[r] = "wait3"
          /\ app_attempt_failed(r, "timeout", DeadlineExceeded, <<>>)
    /\ UNCHANGED <<svc, load, req, cid, loc, results, nextId, http>>

\* a call made without a timeout is never answered: the caller waits in it.
\* These are the count_tokens calls of app.py (before and after the
\* generation call) and every call of main.py and tasks.py
call_never_returns(r) ==
    /\ \/ /\ svc = "flask"
          /\ \/ \E stage \in {"1", "2", "2.5", "3"} :
                  /\ pc[r] = (CASE stage = "1" -> "y_update1" [] stage = "2" -> "y_update2"
                                [] stage = "2.5" -> "y_update25" [] stage = "3" -> "y_update3")
                  /\ Made(r, <<Call(stage, "count_tokens", app_prompt(r, stage))>>)
             \/ /\ pc[r] \in {"wait1", "wait2", "wait25"}
                /\ \E text \in TextsNow :
                      Made(r, <<Call(calls[r][Len(calls[r])].stage, "count_tokens", text)>>)
             \/ /\ pc[r] = "wait3"
                /\ \E reply \in app_RepliesNow :
                      Made(r, <<Call("3", "count_tokens", <<app_clean_json(reply)>>)>>)
       \/ /\ svc \in {"fastapi", "celery"}
          /\ InFlight(r)
          /\ calls' = calls
    /\ pc' = [pc EXCEPT ![r] = "waiting"]
    /\ UNCHANGED <<svc, load, req, cid, loc, attempt, events, att, sessions, results, nextId, http>>

\* the pipeline with a provider that may leave a call unanswered
TimeoutNext ==
    \/ Next
    \/ \E r \in Runs :
          /\ app_generate_content_timeout(r) \/ call_never_returns(r)
          /\ UNCHANGED <<fvars, elapsed, gone>>

TimeoutSpec == Init /\ [][TimeoutNext]_vars /\ \A r \in Runs : WF_vars(Progress(r))

\* ------------------------------------------------------------------ a client that disconnects
\* the generator of run r is suspended at a yield
Suspended(r) ==
    pc[r] \in {"y_update1", "y_fetch1", "y_update2", "y_fetch2", "y_update25", "y_update3",
               "y_result", "y_conversation_id", "y_error"}

\* the client of run r closes its connection.  StreamingResponse of main.py
\* listens for the disconnect and cancels the generator where it is suspended
\* (CancelledError is not an Exception: the except branch is passed).  The
\* WSGI server of app.py does not notice: event_generator goes on.  Explored
\* in the workload of concurrent runs
client_disconnects(r) ==
    /\ svc \in {"flask", "fastapi"}
    /\ load = "concurrent"
    /\ pc[r] \notin {"idle", "done"}
    /\ http[r] = 200
    /\ gone[r] = 0
    /\ gone' = [gone EXCEPT ![r] = Len(events[r]) + 1]
    /\ pc' = IF svc = "fastapi" THEN [pc EXCEPT ![r] = "done"] ELSE pc
    /\ UNCHANGED <<svc, load, req, cid, loc, attempt, events, calls, att, sessions, results,
                   nextId, http, fvars, elapsed>>

\* the write of an event yielded after the client left fails and the server
\* closes the generator of app.py: GeneratorExit is raised at the yield and
\* passes the except branch
app_generator_close(r) ==
    /\ svc = "flask"
    /\ gone[r] # 0
    /\ Len(events[r]) >= gone[r]
    /\ Suspended(r)
    /\ pc' = [pc EXCEPT ![r] = "done"]
    /\ UNCHANGED <<svc, load, req, cid, loc, attempt, events, calls, att, sessions, results,
                   nextId, http, fvars, elapsed, gone>>

\* the pipeline with clients that may disconnect
DisconnectNext ==
    \/ Next
    \/ \E r \in Runs : client_disconnects(r) \/ app_generator_close(r)

DisconnectSpec == Init /\ [][DisconnectNext]_vars

\* ------------------------------------------------------------------ observations
Streaming == svc \in {"flask", "fastapi"}

\* the number of events of a type on the stream of run r
NumEvents(r, type) == Cardinality({i \in DOMAIN events[r] : events[r][i].type = type})

\* the number of generate_content calls run r made for a stage
GenCalls(r, stage) ==
    Cardinality({i \in DOMAIN calls[r] :
                    calls[r][i].stage = stage /\ calls[r][i].api = "generate_content"})

\* position of a stage in the pipeline
StageIndex(stage) ==
    CASE stage = "1" -> 1 [] stage = "2" -> 2 [] stage = "2.5" -> 3 [] stage = "3" -> 4

\* the stage a progress message announces (0: not a stage's message)
UpdateStage(content) ==
    CASE content = "Finding relevant studies..." -> 1
      [] content = "Extracting study data..." -> 2
      [] content = "Compacting data for analysis..." -> 3
      [] content = "Analyzing study data..." -> 4
      [] OTHER -> 0

\* event i of run r is the progress event of a stage
IsStageUpdate(r, i) ==
    /\ events[r][i].type \in {"update", "PROGRESS"}
    /\ UpdateStage(events[r][i].content) # 0

\* the update of stage index k is among the events es
HasUpdate(es, k) ==
    \E i \in DOMAIN es : es[i].type = "update" /\ UpdateStage(es[i].content) = k

\* the session stored under key c in store, as a dict
SessionIn(store, c) ==
    IF svc = "flask"
    THEN LET d == JsonLoads(store[c]) IN
         [ user_id |-> d.user_id, original_query |-> d.original_query,
           studies_data |-> d.studies_data, analysis |-> JsonLoads(d.analysis_data_str) ]
    ELSE [ user_id |-> store[c].user_id, original_query |-> store[c].original_query,
           studies_data |-> store[c].studies_data, analysis |-> store[c].analysis ]

\* run r has streamed a terminal event count
Terminals(r) == NumEvents(r, "result") + NumEvents(r, "error")

\* the request of run r was accepted and its stream opened
Opened(r) == pc[r] # "idle" /\ http[r] = 200

\* ------------------------------------------------------------------ claims
\* C1: every /chat run on a non-empty query, whose provider calls all return or
\* raise, ends its stream, and the stream then holds exactly one terminal
\* event: one `result` or one `error`, never both and never neither.
C1_ExactlyOneTerminalEvent ==
    /\ [](\A r \in Runs : (Streaming /\ Opened(r) /\ req[r].query # EmptyQuery) =>
            /\ Terminals(r) <= 1
            /\ (pc[r] = "done" => Terminals(r) = 1))
    /\ \A r \in Runs :
         (Streaming /\ Opened(r) /\ req[r].query # EmptyQuery) ~> (pc[r] = "done")

\* one run ended with a result while another ended with an error in Stage 3
C1_Witness ==
    \E r1, r2 \in Runs :
        /\ Streaming /\ pc[r1] = "done" /\ pc[r2] = "done"
        /\ req[r1].query # EmptyQuery /\ req[r2].query # EmptyQuery
        /\ NumEvents(r1, "result") = 1 /\ NumEvents(r1, "error") = 0
        /\ NumEvents(r2, "error") = 1 /\ NumEvents(r2, "result") = 0
        /\ GenCalls(r2, "3") >= 1

\* the step appends a `result` event to the stream of run r
ResultStep(r) ==
    /\ Len(events'[r]) = Len(events[r]) + 1
    /\ events'[r][Len(events'[r])].type = "result"

\* C2: when a run emits `result`, its Session is already in the store with the
\* same analysis; the next event is `conversation_id` carrying the Session's
\* key; a finished stream has no `result` without a conversation id and no
\* conversation id that does not directly follow a `result`.
C2_ResultStoredThenConversationId ==
    /\ [][\A r \in Runs : (Streaming /\ ResultStep(r)) =>
            /\ cid'[r] \in DOMAIN sessions'
            /\ SessionIn(sessions', cid'[r]).analysis
                 = events'[r][Len(events'[r])].content]_vars
    /\ [](\A r \in Runs : Streaming => \A i \in DOMAIN events[r] :
            /\ events[r][i].type = "result" =>
                 /\ (i < Len(events[r]) =>
                        /\ events[r][i + 1].type = "conversation_id"
                        /\ events[r][i + 1].content = cid[r])
                 /\ (pc[r] = "done" => i < Len(events[r]))
            /\ events[r][i].type = "conversation_id" =>
                 /\ i > 1
                 /\ events[r][i - 1].type = "result")

\* a run has streamed its result and then its conversation id
C2_Witness ==
    \E r \in Runs : \E i \in DOMAIN events[r] :
        /\ Streaming /\ events[r][i].type = "result" /\ i < Len(events[r])
        /\ events[r][i + 1].type = "conversation_id"
        /\ events[r][i + 1].content \in DOMAIN sessions

\* the stage functions of the service, in pipeline order
StagesOf == IF svc = "flask" THEN <<"1", "2", "2.5", "3">> ELSE <<"1", "2", "3">>

\* every stage of run r returned a value (none raised)
AllStagesSucceeded(r) ==
    /\ \A k \in DOMAIN StagesOf : GenCalls(r, StagesOf[k]) >= 1
    /\ att[r] # <<>> /\ att[r][Len(att[r])] = "ok"
    /\ NumEvents(r, IF svc = "flask" THEN "fetch_result" ELSE "step_result") = 2
    /\ HasUpdate(events[r], 4)

\* C3: a Session is in the store only for a run all of whose stages succeeded,
\* and it carries that run's user id, query, extracted dataset and validated
\* analysis; a run that streamed an `error` has no Session in the store.
C3_SessionOnlyForCompleteRun ==
    /\ \A c \in DOMAIN sessions : \E r \in Runs :
          /\ cid[r] = c
          /\ AllStagesSucceeded(r)
          /\ SessionIn(sessions, c).user_id = req[r].user
          /\ req[r].user \in Users
          /\ SessionIn(sessions, c).original_query = req[r].query
          /\ SessionIn(sessions, c).studies_data = loc[r].s2
          /\ \E i \in DOMAIN events[r] :
                /\ events[r][i].type = "result"
                /\ events[r][i].content = SessionIn(sessions, c).analysis
          /\ SessionIn(sessions, c).analysis.confidence
                \in (IF svc = "flask" THEN app_Confidence ELSE main_Confidence)
    /\ \A r \in Runs : NumEvents(r, "error") > 0 => cid[r] \notin DOMAIN sessions

\* one run has stored its Session while another run failed in Stage 3
C3_Witness ==
    \E r1, r2 \in Runs :
        /\ Streaming /\ cid[r1] \in DOMAIN sessions
        /\ NumEvents(r2, "error") = 1 /\ GenCalls(r2, "3") >= 1

\* events i < j of run r belong to the same execution of the task
SameExecution(r, i, j) == \A k \in i..j : events[r][k].type # "RETRY"

StatusOf(stage) ==
    CASE stage = "1" -> "Finding relevant studies..."
      [] stage = "2" -> "Extracting study data..."
      [] stage = "2.5" -> "Compacting data for analysis..."
      [] stage = "3" -> "Analyzing study data..."

\* C5: whenever a run makes a provider call for a stage, that stage's progress
\* event is already on its stream (for the background task: update_state for
\* the stage is what the execution reported last).
C5_UpdateBeforeStageCall ==
    [][\A r \in Runs : \A i \in (Len(calls[r]) + 1)..Len(calls'[r]) :
          IF Streaming
          THEN HasUpdate(events[r], StageIndex(calls'[r][i].stage))
          ELSE events'[r][Len(events'[r])] = Event("PROGRESS", StatusOf(calls'[r][i].stage))
      ]_vars

\* a run has called the provider for every stage, Stage 3 twice
C5_Witness ==
    \E r \in Runs :
        /\ svc = "flask" /\ GenCalls(r, "1") = 1 /\ GenCalls(r, "2") = 1
        /\ GenCalls(r, "2.5") = 1 /\ GenCalls(r, "3") = 2

\* the stages of the provider calls of run r never go back
CallsInStageOrder(r) ==
    \A i, j \in DOMAIN calls[r] :
        i < j => StageIndex(calls[r][i].stage) <= StageIndex(calls[r][j].stage)

\* C6: once a stage has raised, the `error` event is the single, last event of
\* the stream: no event follows it, no provider call is made after it, and no
\* earlier stage is called again.
C6_FailedIsFinal ==
    /\ [](\A r \in Runs : Streaming =>
            /\ NumEvents(r, "error") <= 1
            /\ \A i \in DOMAIN events[r] :
                  events[r][i].type = "error" => i = Len(events[r])
            /\ CallsInStageOrder(r))
    /\ [][\A r \in Runs : (Streaming /\ NumEvents(r, "error") > 0) =>
            /\ calls'[r] = calls[r]
            /\ events'[r] = events[r]]_vars

\* a run failed in Stage 3 after using its retry and its stream has ended
C6_Witness ==
    \E r \in Runs :
        /\ Streaming /\ pc[r] = "done" /\ NumEvents(r, "error") = 1
        /\ GenCalls(r, "1") = 1 /\ GenCalls(r, "2") = 1 /\ GenCalls(r, "3") = 2

\* the retry budget of a stage function
Budget(stage) == IF svc = "flask" /\ stage = "3" THEN max_retries ELSE 0

\* run r failed in `stage` with every generation attempt of the stage failing
EveryAttemptFailed(r, stage) ==
    /\ NumEvents(r, "error") = 1
    /\ calls[r] # <<>>
    /\ calls[r][Len(calls[r])].stage = stage
    /\ IF stage = "3"
       THEN att[r] # <<>> /\ \A i \in DOMAIN att[r] : att[r][i] # "ok"
       ELSE calls[r][Len(calls[r])].api = "generate_content"

\* C7: a stage never makes more than budget+1 generate_content calls, and a run
\* that failed in a stage all of whose attempts failed made exactly budget+1:
\* max_retries+1 in analyze_studies of app.py, one in every other stage.
C7_ExactlyBudgetPlusOneAttempts ==
    \A r \in Runs : Streaming => \A stage \in {"1", "2", "2.5", "3"} :
        /\ GenCalls(r, stage) <= Budget(stage) + 1
        /\ EveryAttemptFailed(r, stage) => GenCalls(r, stage) = Budget(stage) + 1

\* analyze_studies of app.py failed on both attempts
C7_Witness ==
    \E r \in Runs :
        /\ svc = "flask" /\ EveryAttemptFailed(r, "3")
        /\ att[r] = <<"not_json", "provider_error">>
        /\ GenCalls(r, "3") = max_retries + 1

Executions(r) ==
    IF pc[r] \in {"idle", "queued"} THEN attempt[r] ELSE attempt[r] + 1

RefersToStage3Parse(content) ==
    \E i, j \in DOMAIN content :
        /\ i < j
        /\ content[i] \in { "Step 3 failed after ",
                            "Step 3 failed because the API did not return valid JSON. Error: " }
        /\ content[j] \in { "Expecting value: line 1 column 1 (char 0)",
                            "Invalid JSON: expected value at line 1 column 1" }

\* every Stage-3 attempt of run r (the first and all retries) returned text
\* that is not JSON
AllAttemptsNotJson(r) ==
    /\ Len(att[r]) = Budget("3") + 1
    /\ \A i \in DOMAIN att[r] : att[r][i] = "not_json"

\* C9: if Stage 3 returns text that is not JSON on every attempt, the stream
\* holds exactly one `error` event, which names the Stage-3 parse failure, no
\* `result` event, and no Session is stored for the run.
C9_NonJsonEndsInOneError ==
    \A r \in Runs : (Streaming /\ AllAttemptsNotJson(r)) =>
        /\ NumEvents(r, "error") = 1
        /\ NumEvents(r, "result") = 0
        /\ events[r][Len(events[r])].type = "error"
        /\ RefersToStage3Parse(events[r][Len(events[r])].content)
        /\ cid[r] \notin DOMAIN sessions

\* analyze_studies of app.py got non-JSON text twice and the stream has ended
C9_Witness ==
    \E r \in Runs :
        /\ svc = "flask" /\ pc[r] = "done"
        /\ att[r] = <<"not_json", "not_json">>

\* C10 as claimed: a /chat request with an empty query emits no `update` event
\* and makes no provider call.
C10_EmptyQueryRejected ==
    \A r \in Runs : (Streaming /\ Opened(r) /\ req[r].query = EmptyQuery) =>
        /\ NumEvents(r, "update") = 0
        /\ calls[r] = <<>>

\* ------------------------------------------------------------------ follow-up observations
\* the body of follow-up f names conversation id c and carries a message
Names(f, c) ==
    /\ freq[f].body.is_object
    /\ freq[f].body.has_conversation_id /\ freq[f].body.conversation_id = c
    /\ freq[f].body.has_message /\ freq[f].body.message # <<>>

\* the run whose conversation id is c was submitted by another user than the
\* one follow-up f is authenticated as
NotOwner(f, c) ==
    /\ fpc[f] # "idle"
    /\ Names(f, c)
    /\ \E r \in Runs : cid[r] = c /\ req[r].user # freq[f].user

\* follow-up f was answered with the access-denied condition (and only that)
Denied(f) ==
    IF svc = "flask"
    THEN /\ fhttp[f] = 200
         /\ \/ fpc[f] = "denied" /\ fevents[f] = <<>>
            \/ /\ fpc[f] \in {"y_error", "done"}
               /\ fevents[f] = <<Event("error", <<"Access denied to this conversation.">>)>>
    ELSE fpc[f] = "done" /\ fhttp[f] = 403 /\ fevents[f] = <<>>

\* the step handles the request of follow-up f
Requested(f) == fpc[f] = "idle" /\ fpc'[f] # "idle"

\* the step is a step of follow-up f
StepOf(f) ==
    <<fpc[f], fevents[f], fcalls[f], fstream[f]>> # <<fpc'[f], fevents'[f], fcalls'[f], fstream'[f]>>

\* the number of events of a type on the stream of follow-up f
NumFEvents(f, type) == Cardinality({i \in DOMAIN fevents[f] : fevents[f][i].type = type})

\* C11: a follow-up by a user who did not create the session never makes a
\* provider call, never receives a `message` or any event other than one
\* error, and none of its steps changes the session store; when the session
\* is in the store at the request, the answer is the access-denied condition
\* (app.py answers HTTP 500 instead when the Redis client itself raises),
\* whatever follow-ups were served before.
C11_FollowupByNonOwnerDenied ==
    /\ [](\A f \in Followups : \A c \in 1..NumRuns : NotOwner(f, c) =>
            /\ fcalls[f] = <<>>
            /\ fstream[f] = NoStream
            /\ fses[f] = NoSession
            /\ Len(fevents[f]) <= 1
            /\ NumFEvents(f, "error") = Len(fevents[f]))
    /\ [][\A f \in Followups : \A c \in 1..NumRuns :
            /\ (NotOwner(f, c)' /\ StepOf(f)) => sessions' = sessions
            /\ (NotOwner(f, c)' /\ Requested(f) /\ c \in DOMAIN sessions) =>
                    \/ Denied(f)'
                    \/ svc = "flask" /\ fhttp'[f] = 500 /\ fpc'[f] = "done"]_vars

\* the owner's follow-up was streamed to its end, and another user's follow-up
\* on the same session was denied
C11_Witness ==
    \E f1, f2 \in Followups : \E c \in DOMAIN sessions :
        /\ Names(f1, c) /\ fpc[f1] = "done" /\ NumFEvents(f1, "message") = 2
        /\ NumFEvents(f1, "error") = 0
        /\ NotOwner(f2, c) /\ Denied(f2) /\ fpc[f2] = "done"

\* follow-up f was answered with the not-found condition
NotFound(f) ==
    IF svc = "flask"
    THEN /\ fhttp[f] = 200
         /\ \/ fpc[f] = "not_found" /\ fevents[f] = <<>>
            \/ /\ fpc[f] \in {"y_error", "done"}
               /\ fevents[f] = <<Event("error", <<"Conversation not found or has expired.">>)>>
    ELSE fpc[f] = "done" /\ fhttp[f] = 404 /\ fevents[f] = <<>>

\* C12 as claimed: a follow-up on a conversation id under which no session was
\* stored, or whose session was stored longer ago than the TTL, is answered
\* not-found (app.py: unless the Redis client itself raises) and makes no
\* provider call; a session whose TTL has elapsed is no longer in the store.
C12_ExpiredOrUnknownNotFound ==
    /\ [](\A c \in elapsed : c \notin DOMAIN sessions)
    /\ [][\A f \in Followups : \A c \in 1..NumRuns :
            ( /\ Requested(f) /\ Names(f, c)'
              /\ (c \in elapsed \/ c \notin DOMAIN sessions) ) =>
                \/ NotFound(f)' /\ fcalls'[f] = <<>>
                \/ svc = "flask" /\ fhttp'[f] = 500 /\ fpc'[f] = "done"]_vars

\* the history of the session stored under c (a session without the key has none)
History(c) ==
    LET session_data == IF svc = "flask" THEN JsonLoads(sessions[c]) ELSE sessions[c] IN
    IF "history" \in DOMAIN session_data THEN session_data.history ELSE <<>>

\* follow-up f on session c was accepted and streamed to its end without error
Completed(f, c) ==
    /\ freq[f].body.has_conversation_id /\ freq[f].body.conversation_id = c
    /\ fpc[f] = "done" /\ fhttp[f] = 200
    /\ fcalls[f] # <<>> /\ NumFEvents(f, "error") = 0

\* the follow-ups on session c that completed
CompletedOn(c) == {f \in Followups : Completed(f, c)}

\* the length of the history of a session when the /chat run stores it
CreatedLen == IF svc = "flask" THEN 0 ELSE 2

\* C13 as claimed: in app.py and main.py every completed follow-up of the owner
\* appends the user message and the assistant reply, so the stored history is
\* 2k entries longer than at creation after k completed follow-ups.
C13_HistoryGrowsByTwoPerFollowup ==
    \A c \in DOMAIN sessions :
        /\ Len(History(c)) = CreatedLen + 2 * Cardinality(CompletedOn(c))
        /\ \A f \in CompletedOn(c) : \E i \in DOMAIN History(c) :
              /\ i < Len(History(c))
              /\ History(c)[i] = [role |-> "user", content |-> freq[f].body.message]
              /\ History(c)[i + 1] = [role |-> "assistant", content |-> fstream[f].full]

\* ------------------------------------------------------------------ Stage-3 validation
\* the confidence tiers of the service, and the Stage-3 answers explored
Tiers == IF svc = "flask" THEN app_Confidence ELSE main_Confidence
RepliesOf == IF svc = "flask" THEN app_Stage3Replies ELSE main_Stage3Replies

\* the Stage-3 validation of the service accepts the provider's answer s
Accepts(s) ==
    CASE svc = "flask" ->
           app_json_loads_ok(app_clean_json(s)) /\ app_model_validate_ok(app_clean_json(s))
      [] svc = "fastapi" -> main_json_ok(s) /\ main_schema_ok(s)
      [] svc = "celery" -> tasks_json_ok(s) /\ tasks_schema_ok(s)

\* the AnalysisResult an accepted answer is turned into
Accepted(s) ==
    CASE svc = "flask" -> app_model_dump(app_clean_json(s))
      [] svc = "fastapi" -> main_model_dump(s)
      [] svc = "celery" -> tasks_model_dump(s)

\* the AnalysisResults that reached a stream, a task result or the session store
Analyses ==
    UNION { {events[r][i].content : i \in {j \in DOMAIN events[r] : events[r][j].type = "result"}}
            \cup {events[r][i].content.analysis_result :
                     i \in {j \in DOMAIN events[r] : events[r][j].type = "SUCCESS"}}
            : r \in Runs }
    \cup {SessionIn(sessions, c).analysis : c \in DOMAIN sessions}

\* the Stage-3 answers analyze_studies of app.py has received in run r
Received(r) ==
    {calls[r][i].text[1] : i \in {j \in DOMAIN calls[r] :
        /\ calls[r][j].stage = "3" /\ calls[r][j].api = "count_tokens"
        /\ Len(calls[r][j].text) = 1}}

\* C14: the Stage-3 validation accepts an answer only if its confidence is one
\* of the three tiers of the service (wrong case, unknown word and missing
\* value are rejected), an accepted answer keeps its own confidence value, and
\* every AnalysisResult on a stream, in a task result or in a Session has a
\* confidence of the three-tier set.
C14_ConfidenceInThreeTiers ==
    /\ Cardinality(Tiers) = 3
    /\ \A s \in RepliesOf : Accepts(s) =>
          /\ s.confidence \in Tiers
          /\ Accepted(s).confidence = s.confidence
    /\ \A a \in Analyses : a.confidence \in Tiers

\* analyze_studies of app.py rejected an answer with an unknown confidence
\* word, accepted the retry's answer, and the result was streamed
C14_Witness ==
    \E r \in Runs :
        /\ svc = "flask" /\ att[r] = <<"not_valid", "ok">>
        /\ \E s \in Received(r) : s.confidence = "MEDIUM"
        /\ \E s \in Received(r) : s.confidence \in Tiers
        /\ NumEvents(r, "result") = 1

\* C15 as claimed: every AnalysisResult that the Stage-3 validation let through
\* has `process` and `regression_models` populated (only `plots` may be
\* absent): an answer lacking `regression_models` or `process` is not accepted.
C15_DetailsPopulated ==
    \A a \in Analyses :
        /\ a.details.process \notin {Missing, None}
        /\ a.details.regression_models \notin {Missing, None}

\* the answer s without its formatting deviations
CleanForm(s) == [s EXCEPT !.fence = FALSE, !.nl = FALSE, !.upper = FALSE]

\* the number of formatting deviations of the answer s
Deviations(s) ==
    (IF s.fence THEN 1 ELSE 0) + (IF s.nl THEN 1 ELSE 0) + (IF s.upper THEN 1 ELSE 0)

\* C16 as claimed: an answer whose clean form is accepted and that deviates
\* from it in one way only (markdown fences, raw newlines inside string values,
\* or field names in another letter case) is accepted too, as the same
\* AnalysisResult.
C16_ToleratesFormattingDrift ==
    \A s \in RepliesOf :
        (s.syntax /\ Deviations(s) = 1 /\ Accepts(CleanForm(s))) =>
            /\ Accepts(s)
            /\ Accepted(s) = Accepted(CleanForm(s))

\* the body of follow-up f is a JSON object whose conversation id or message
\* is missing or empty
Incomplete(f) ==
    /\ fpc[f] # "idle"
    /\ freq[f].body.is_object
    /\ \/ ~freq[f].body.has_conversation_id \/ freq[f].body.conversation_id = 0
       \/ ~freq[f].body.has_message \/ freq[f].body.message = <<>>

\* C17 as claimed: a follow-up whose conversation id or message is missing or
\* empty is answered at once with a client-fault status and nothing else: no
\* stream, no session data, no provider call, no change of the session store.
C17_IncompleteFollowupRejected ==
    /\ [](\A f \in Followups : Incomplete(f) =>
            /\ fpc[f] = "done"
            /\ fhttp[f] \in {400, 404, 422}
            /\ fevents[f] = <<>> /\ fcalls[f] = <<>> /\ fses[f] = NoSession)
    /\ [][\A f \in Followups : (Incomplete(f)' /\ StepOf(f)) => sessions' = sessions]_vars

\* ------------------------------------------------------------------ text between stages
\* the prompt the service composes for a stage from the upstream text
PromptOf(stage, upstream) ==
    CASE svc = "flask" /\ stage = "1" -> app_compose_step_one_query(upstream)
      [] svc = "flask" /\ stage = "2" -> app_compose_step_two_query(upstream)
      [] svc = "flask" /\ stage = "2.5" -> app_compose_step_two_point_five_query(upstream)
      [] svc = "flask" /\ stage = "3" -> app_compose_step_three_query(upstream)
      [] svc = "fastapi" -> main_prompt(stage, upstream)
      [] svc = "celery" /\ stage = "1" -> tasks_compose_step_one_query(upstream)
      [] svc = "celery" /\ stage = "2" -> tasks_compose_step_two_query(upstream)
      [] svc = "celery" /\ stage = "3" -> tasks_compose_step_three_query(upstream)

\* C18 as claimed: the prompt of every stage after the first embeds the text
\* the provider returned for the stage before it, character for character.
\* In app.py the returned text is the argument of the count_tokens call that
\* ends a stage; in main.py and tasks.py it is the stage function's value.
C18_UpstreamTextVerbatim ==
    /\ [](svc = "flask" => \A r \in Runs : \A i \in 2..Len(calls[r]) :
            calls[r][i].stage # calls[r][i - 1].stage =>
                calls[r][i].text = PromptOf(calls[r][i].stage, calls[r][i - 1].text))
    /\ [][svc # "flask" => \A r \in Runs : \A i \in (Len(calls[r]) + 1)..Len(calls'[r]) :
            calls'[r][i].stage # "1" =>
                calls'[r][i].text =
                    PromptOf(calls'[r][i].stage,
                             IF calls'[r][i].stage = "2" THEN loc'[r].s1 ELSE loc'[r].s2)]_vars

\* ------------------------------------------------------------------ orchestrator states
\* the state of the orchestrator of run r: 0 Idle, 1 FindingStudies,
\* 2 ExtractingData, 3 Compacting, 4 Analyzing, 5 Complete, 6 Failed,
\* 7 the request was rejected before a run started
Phase(r) ==
    CASE pc[r] \in {"idle", "start", "queued"} -> 0
      [] pc[r] \in {"y_update1", "wait1", "y_fetch1", "y_step1"} -> 1
      [] pc[r] \in {"y_update2", "wait2", "y_fetch2", "y_step2"} -> 2
      [] pc[r] \in {"y_update25", "wait25"} -> 3
      [] pc[r] \in {"y_update3", "wait3"} -> 4
      [] pc[r] \in {"y_result", "y_conversation_id", "y_suggestions"} -> 5
      [] pc[r] = "y_error" -> 6
      [] pc[r] = "done" ->
            IF NumEvents(r, "result") + NumEvents(r, "SUCCESS") > 0 THEN 5
            ELSE IF NumEvents(r, "error") + NumEvents(r, "FAILURE") > 0 THEN 6
            ELSE 7

\* the stage state that follows stage state p in the pipeline of the service
NextPhase(p) == IF p = 2 /\ svc # "flask" THEN 4 ELSE p + 1

\* the step moves run r along the pipeline: it stays, enters the next stage,
\* completes after Analyzing, fails out of a stage, or is rejected when idle
Forward(r) ==
    \/ Phase(r)' = Phase(r)
    \/ Phase(r) \in 0..4 /\ Phase(r)' = NextPhase(Phase(r))
    \/ Phase(r) \in 1..4 /\ Phase(r)' = 6
    \/ Phase(r) = 0 /\ Phase(r)' = 7

\* the generate_content calls the step adds to run r are calls of the stage
\* the run is in after the step, and no call of another stage is in flight
\* when it ends: the earlier stage's call has returned
CallsSequential(r) ==
    \A i \in (Len(calls[r]) + 1)..Len(calls'[r]) :
        calls'[r][i].api = "generate_content" =>
            /\ StageIndex(calls'[r][i].stage) = Phase(r)'
            /\ InFlight(r)'
            /\ Cardinality({j \in (Len(calls[r]) + 1)..Len(calls'[r]) :
                                calls'[r][j].api = "generate_content"}) = 1

\* the last provider calls of run r are one call sequence through all stages
RanEveryStage(r) ==
    /\ \A k \in DOMAIN StagesOf : GenCalls(r, StagesOf[k]) >= 1
    /\ IF Streaming
       THEN CallsInStageOrder(r)
       ELSE /\ Len(calls[r]) >= 3
            /\ calls[r][Len(calls[r]) - 2].stage = "1"
            /\ calls[r][Len(calls[r]) - 1].stage = "2"
            /\ calls[r][Len(calls[r])].stage = "3"

C20_NoEmptyTextFlows ==
    \A r \in Runs : \A i \in DOMAIN calls[r] :
        calls[r][i].api = "generate_content" =>
            calls[r][i].text # PromptOf(calls[r][i].stage, <<>>)

\* ------------------------------------------------------------------ follow-up prompt
\* part occurs in text as a contiguous piece
Embeds(text, part) ==
    \E i \in 0..(Len(text) - Len(part)) : SubSeq(text, i + 1, i + Len(part)) = part

\* the session follow-up f works on: session_data of followup_api
SessionOf(f) ==
    IF svc = "flask" THEN fses[f] ELSE sessions[freq[f].body.conversation_id]

\* the stored analysis of session_data, as a dict
AnalysisOf(session_data) ==
    IF svc = "flask" THEN JsonLoads(session_data.analysis_data_str) ELSE session_data.analysis

\* text embeds the analysis a: as one serialised value, or field by field
EmbedsAnalysis(text, a) ==
    \/ Embeds(text, <<ToString(JsonDumps(a))>>)
    \/ /\ Embeds(text, <<a.summary>>) /\ Embeds(text, <<a.confidence>>)
       /\ Embeds(text, <<a.details.process>>)

\* the history of session_data so far, one line per entry
HistoryText(session_data) ==
    IF "history" \in DOMAIN session_data THEN main_history_summary(session_data.history)
    ELSE <<>>

\* the number of generate_content calls follow-up f has made
GenFCalls(f) ==
    Cardinality({i \in DOMAIN fcalls[f] : fcalls[f][i].api = "generate_content"})

\* the step adds a generate_content call to follow-up f
FollowupCallStep(f) ==
    /\ Len(fcalls'[f]) > Len(fcalls[f])
    /\ fcalls'[f][Len(fcalls'[f])].api = "generate_content"

\* C21 as claimed: the prompt of the model call of a follow-up embeds the
\* session's original query, its stored dataset, its stored analysis, the
\* history so far and the new message, and a follow-up makes one model call.
C21_FollowupPromptEmbedsAllParts ==
    /\ [][\A f \in Followups : FollowupCallStep(f) =>
            LET prompt == fcalls'[f][Len(fcalls'[f])].text
                session_data == SessionOf(f) IN
            /\ Embeds(prompt, session_data.original_query)
            /\ Embeds(prompt, session_data.studies_data)
            /\ EmbedsAnalysis(prompt, AnalysisOf(session_data))
            /\ Embeds(prompt, HistoryText(session_data))
            /\ Embeds(prompt, freq[f].body.message)]_vars
    /\ [](\A f \in Followups :
            /\ GenFCalls(f) <= 1
            /\ (fpc[f] = "done" /\ fhttp[f] = 200 /\ NumFEvents(f, "error") = 0)
                  => GenFCalls(f) = 1)

\* ------------------------------------------------------------------ provider calls of a stage
\* the provider calls (of any API) run r made for a stage
StageCalls(r, stage) == Cardinality({i \in DOMAIN calls[r] : calls[r][i].stage = stage})

\* the upstream text a stage function is invoked with, given the request and
\* the locals of the run
UpstreamOf(request, locals, stage) ==
    CASE stage = "1" -> request.query
      [] stage = "2" -> locals.s1
      [] stage = "2.5" -> locals.s2
      [] stage = "3" -> IF svc = "flask" THEN locals.s25 ELSE locals.s2

\* C22 as claimed: a non-final stage function is invoked once per run (once
\* per execution of the background task) and each invocation makes exactly
\* one call to the provider, carrying the prompt composed from its upstream
\* text: no retry and no other provider call, whether the call returns or raises.
C22_OneProviderCallPerStage ==
    /\ [](\A r \in Runs : \A stage \in {"1", "2", "2.5"} :
            /\ StageCalls(r, stage) <= (IF Streaming THEN 1 ELSE Executions(r))
            /\ StageCalls(r, stage) = GenCalls(r, stage))
    /\ [][\A r \in Runs : \A i \in (Len(calls[r]) + 1)..Len(calls'[r]) :
            (calls'[r][i].stage # "3" /\ calls'[r][i].api = "generate_content") =>
                calls'[r][i].text = PromptOf(calls'[r][i].stage,
                                             UpstreamOf(req'[r], loc'[r], calls'[r][i].stage))]_vars

\* ------------------------------------------------------------------ Stage-3 error outcomes
\* the outcome of the last Stage-3 attempt of run r, which failed the run
Stage3FailedWith(r) ==
    IF NumEvents(r, "error") = 1 /\ att[r] # <<>> /\ att[r][Len(att[r])] # "ok"
    THEN att[r][Len(att[r])] ELSE "none"

\* the content of the `error` event of run r
ErrorOf(r) == events[r][Len(events[r])].content

\* the error text says that the provider's answer was not valid JSON
SaysInvalidJson(content) ==
    \E i \in DOMAIN content :
        content[i] \in { "Step 3 failed because the API did not return valid JSON. Error: ",
                         JSONDecodeError[1], main_InvalidJSON[1] }

\* C23 as claimed: a run whose Stage-3 model call failed in transport reports
\* an error that differs from the error any run reports for a malformed
\* Stage-3 answer (not JSON, or not valid against the schema), and that does
\* not say the answer was invalid JSON.
C23_ProviderFailureDistinct ==
    \A r \in Runs : (Streaming /\ Stage3FailedWith(r) = "provider_error") =>
        /\ ~SaysInvalidJson(ErrorOf(r))
        /\ \A r2 \in Runs : Stage3FailedWith(r2) \in {"not_json", "not_valid"} =>
                ErrorOf(r2) # ErrorOf(r)

\* ------------------------------------------------------------------ timeouts
\* the request or task of run r was accepted
Submitted(r) == pc[r] # "idle" /\ (Streaming => http[r] = 200)

\* run r has ended with its one terminal event
Ended(r) ==
    /\ pc[r] = "done"
    /\ Terminals(r) + NumEvents(r, "SUCCESS") + NumEvents(r, "FAILURE") = 1

\* C24 as claimed: with a provider that may leave any call unanswered, every
\* accepted run (of every variant, whatever other runs do) eventually ends
\* with its terminal event: each call is bounded by a timeout that fails the
\* stage, so no run waits in a call forever.
C24_EveryRunEndsDespiteSilentProvider ==
    \A r \in Runs : Submitted(r) ~> Ended(r)

\* ------------------------------------------------------------------ client disconnect
\* C25 as claimed: once the client of a run has disconnected, no event is
\* yielded to the run's stream any more (so no `error` event either, whatever
\* the provider answers afterwards), the run makes no further provider call,
\* and every run whose client is connected still ends its stream with exactly
\* one terminal event.
C25_NoEventAfterDisconnect ==
    /\ [][\A r \in Runs : gone[r] # 0 =>
            /\ events'[r] = events[r]
            /\ calls'[r] = calls[r]]_vars
    /\ [](\A r \in Runs : (Streaming /\ gone[r] = 0) =>
            /\ Terminals(r) <= 1
            /\ (pc[r] = "done" /\ http[r] = 200) => Terminals(r) = 1)

\* ------------------------------------------------------------------ concurrent runs
\* the per-run state of run r: its request, locals, stream and calls
RunState(r) == <<pc[r], req[r], cid[r], loc[r], attempt[r], events[r], calls[r], att[r], http[r]>>

\* the entries of the stores that belong to conversation id c
StoredUnder(c) ==
    << IF c \in DOMAIN sessions THEN <<sessions[c]>> ELSE <<>>,
       [k \in {x \in DOMAIN results : x[1] = c} |-> results[k]] >>

\* C26: concurrent runs are isolated from each other.  A step of one run
\* leaves the state and stream of every other run unchanged and touches the
\* stores only under its own conversation id; the prompt of each stage call is
\* composed from the run's own request and stage outputs; conversation ids of
\* different runs differ, and what is stored under a run's id is that run's
\* data (user, query, dataset, stage texts).
C26_RunsIsolated ==
    /\ [](\A r \in Runs :
            /\ \A r2 \in Runs : (r2 # r /\ cid[r] # 0) => cid[r2] # cid[r]
            /\ cid[r] \in DOMAIN sessions =>
                  /\ SessionIn(sessions, cid[r]).user_id = req[r].user
                  /\ SessionIn(sessions, cid[r]).original_query = req[r].query
                  /\ SessionIn(sessions, cid[r]).studies_data = loc[r].s2
            /\ <<cid[r], "step1">> \in DOMAIN results => results[<<cid[r], "step1">>] = loc[r].s1
            /\ <<cid[r], "step2">> \in DOMAIN results => results[<<cid[r], "step2">>] = loc[r].s2)
    /\ [][\A r \in Runs : RunState(r)' # RunState(r) =>
            /\ \A r2 \in Runs \ {r} : RunState(r2)' = RunState(r2)
            /\ \A c \in 0..NumRuns : c # cid'[r] => StoredUnder(c)' = StoredUnder(c)
            /\ \A i \in (Len(calls[r]) + 1)..Len(calls'[r]) :
                  calls'[r][i].api = "generate_content" =>
                      calls'[r][i].text = PromptOf(calls'[r][i].stage,
                                             UpstreamOf(req'[r], loc'[r], calls'[r][i].stage))
       ]_vars

\* two runs of different users interleaved and each stored its own session
C26_Witness ==
    \E r1, r2 \in Runs :
        /\ r1 # r2 /\ req[r1].user # req[r2].user
        /\ cid[r1] \in DOMAIN sessions /\ cid[r2] \in DOMAIN sessions
        /\ SessionIn(sessions, cid[r1]).user_id = req[r1].user
        /\ SessionIn(sessions, cid[r2]).user_id = req[r2].user
        /\ pc[r1] = "done" /\ pc[r2] # "done"

\* ------------------------------------------------------------------ concurrent follow-ups
\* the turn of follow-up f is at positions i, i + 1 of the history h
TurnAt(h, i, f) ==
    /\ h[i] = [role |-> "user", content |-> freq[f].body.message]
    /\ h[i + 1] = [role |-> "assistant", content |-> fstream[f].full]

\* C27: in main.py, for every interleaving of the follow-ups on one session,
\* every completed follow-up has its turn in the history (the history is two
\* entries longer per completed follow-up: no lost update), the history is a
\* sequence of pairs, each the user entry and the assistant entry of one
\* follow-up (no interleaved pairs), and a step that changes the history
\* appends exactly one such pair to it.
C27_HistoryAppendAtomic ==
    /\ [](svc = "fastapi" => \A c \in DOMAIN sessions :
            /\ Len(History(c)) = CreatedLen + 2 * Cardinality(CompletedOn(c))
            /\ \A f \in CompletedOn(c) :
                  \E k \in 1..Cardinality(CompletedOn(c)) : TurnAt(History(c), CreatedLen + 2 * k - 1, f)
            /\ \A k \in 1..Cardinality(CompletedOn(c)) :
                  \E f \in CompletedOn(c) : TurnAt(History(c), CreatedLen + 2 * k - 1, f))
    /\ [][svc = "fastapi" => \A c \in DOMAIN sessions :
            (c \in DOMAIN sessions' /\ History(c)' # History(c)) =>
                \E f \in Followups :
                    /\ fpc[f] = "stream" /\ fpc'[f] = "done"
                    /\ History(c)' = History(c)
                          \o << [role |-> "user", content |-> freq[f].body.message],
                                [role |-> "assistant", content |-> fstream[f].full] >>]_vars

\* two follow-ups on one session, both past their model call, streamed
\* different answers, and both turns are in the history
C27_Witness ==
    \E f1, f2 \in Followups : \E c \in DOMAIN sessions :
        /\ svc = "fastapi" /\ f1 # f2
        /\ Completed(f1, c) /\ Completed(f2, c)
        /\ fstream[f1].full # fstream[f2].full
        /\ Len(History(c)) = CreatedLen + 4
        /\ TurnAt(History(c), CreatedLen + 1, f2) /\ TurnAt(History(c), CreatedLen + 3, f1)

\* ------------------------------------------------------------------ stage artifacts
\* the keys under which app.py stores stage outputs
ResultKeys == (0..NumRuns) \X {"step1", "step2"}

\* the fetch_result events of run r, in order
FetchEvents(r) == SelectSeq(events[r], LAMBDA e : e.type = "fetch_result")

\* C28 as claimed: in app.py the k-th fetch_result event of a run names the
\* key <<conversation id, step k>>, the key is in the store (with the stage's
\* output as its text) from before the event until the TTL has elapsed, and
\* get_result answers a present key with exactly the stored text and an absent
\* or expired key with not-found (unless the Redis client itself fails).
C28_AnnouncedKeysFetchable ==
    svc = "flask" =>
        /\ \A r \in Runs : \A k \in DOMAIN FetchEvents(r) :
              LET key == FetchEvents(r)[k].content IN
              /\ key = <<cid[r], IF k = 1 THEN "step1" ELSE "step2">>
              /\ key \in DOMAIN results \/ cid[r] \in elapsed
              /\ key \in DOMAIN results =>
                    results[key] = (IF k = 1 THEN loc[r].s1 ELSE loc[r].s2)
        /\ \A key \in ResultKeys : \A response \in app_get_result(key) :
              response.status # 500 =>
                  IF key \in DOMAIN results
                  THEN response.status = 200 /\ response.body = results[key]
                  ELSE response.status = 404

\* ------------------------------------------------------------------ Stage-3 attempts
\* the last Stage-3 attempt of run r was accepted
Stage3Succeeded(r) == att[r] # <<>> /\ att[r][Len(att[r])] = "ok"

\* C29: in app.py and main.py every Stage-3 generation call of a run carries
\* the one prompt composed from the stage input; there is one call per attempt
\* and no attempt after an accepted one; the `result` of the run is the
\* AnalysisResult of the accepted answer alone, whatever the failed attempts
\* before it returned; and after the accepted attempt the run makes no call.
C29_SamePromptFirstSuccessWins ==
    /\ [](\A r \in Runs : Streaming =>
            /\ \A i \in DOMAIN calls[r] :
                  (calls[r][i].stage = "3" /\ calls[r][i].api = "generate_content") =>
                      calls[r][i].text = PromptOf("3", UpstreamOf(req[r], loc[r], "3"))
            /\ GenCalls(r, "3") = Len(att[r]) + (IF pc[r] = "wait3" THEN 1 ELSE 0)
            /\ \A i \in DOMAIN att[r] : att[r][i] = "ok" => i = Len(att[r])
            /\ Stage3Succeeded(r) => pc[r] # "wait3"
            /\ (svc = "flask" /\ Stage3Succeeded(r)) =>
                  \A i \in DOMAIN events[r] : events[r][i].type = "result" =>
                      events[r][i].content = app_model_dump(calls[r][Len(calls[r])].text[1]))
    /\ [][\A r \in Runs : (Streaming /\ Stage3Succeeded(r)) => calls'[r] = calls[r]]_vars

\* analyze_studies of app.py got an answer that is not JSON, then one with
\* another content that was accepted, and the result was streamed
C29_Witness ==
    \E r \in Runs :
        /\ svc = "flask" /\ att[r] = <<"not_json", "ok">>
        /\ GenCalls(r, "3") = 2 /\ NumEvents(r, "result") = 1
        /\ \E s \in Received(r) : s.confidence = "LOW"
        /\ Cardinality(Received(r)) = 2

\* ------------------------------------------------------------------ stored sessions
\* C30: every Session in the store was created by one run and holds that
\* run's authenticated user, its query, its Stage-2 output (not the compacted
\* text of Stage 2.5) and the analysis that the run's one `result` event
\* carries; these four fields of a stored Session never change afterwards,
\* whatever follow-ups are served on it.
C30_SessionMatchesRun ==
    /\ [](\A c \in DOMAIN sessions : \E r \in Runs :
            LET session == SessionIn(sessions, c) IN
            /\ cid[r] = c
            /\ \A r2 \in Runs \ {r} : cid[r2] # c
            /\ session.user_id = req[r].user /\ req[r].user \in Users
            /\ session.original_query = req[r].query
            /\ session.studies_data = loc[r].s2
            /\ loc[r].s25 # loc[r].s2 => session.studies_data # loc[r].s25
            /\ NumEvents(r, "result") = 1
            /\ \A i \in DOMAIN events[r] :
                  events[r][i].type = "result" => events[r][i].content = session.analysis)
    /\ [][\A c \in DOMAIN sessions : c \in DOMAIN sessions' =>
            SessionIn(sessions', c) = SessionIn(sessions, c)]_vars

\* a session of app.py whose dataset differs from the compacted text, with a
\* follow-up of its owner answered on it
C30_Witness ==
    \E r \in Runs : \E f \in Followups :
        /\ svc = "flask" /\ cid[r] \in DOMAIN sessions
        /\ loc[r].s25 # loc[r].s2
        /\ SessionIn(sessions, cid[r]).studies_data = loc[r].s2
        /\ Completed(f, cid[r])

\* ------------------------------------------------------------------ streamed answer
\* the contents of the message events among evs, concatenated in order
RECURSIVE MessageTexts(_)
MessageTexts(evs) ==
    IF evs = <<>> THEN <<>>
    ELSE (IF Head(evs).type = "message" THEN Head(evs).content ELSE <<>>) \o MessageTexts(Tail(evs))

\* C31: in the main.py follow-up the message events are emitted in the order
\* the chunks arrive (a chunk with text appends one message event carrying
\* exactly that text, after the events already emitted), an empty chunk
\* produces no event (no message event has empty content, and a chunk that
\* adds no text adds no event), and the assistant entry appended to the
\* history is the concatenation, in order, of the contents of all message
\* events of that follow-up.
C31_MessagesInChunkOrder ==
    /\ [](svc = "fastapi" => \A f \in Followups :
            /\ \A i \in DOMAIN fevents[f] :
                  fevents[f][i].type = "message" => fevents[f][i].content # <<>>
            /\ MessageTexts(fevents[f]) = fstream[f].full)
    /\ [][svc = "fastapi" => \A f \in Followups :
            /\ fstream'[f].n = fstream[f].n + 1 =>
                  \E text \in Chunks(fstream[f].n) :
                      /\ fstream'[f].full = fstream[f].full \o text
                      /\ fevents'[f] = IF text = <<>> THEN fevents[f]
                                       ELSE Append(fevents[f], Event("message", text))
            /\ (fpc[f] = "stream" /\ fpc'[f] = "done") =>
                  LET h == History(freq[f].body.conversation_id)' IN
                  /\ fevents'[f] = fevents[f]
                  /\ h[Len(h)] = [role |-> "assistant", content |-> MessageTexts(fevents[f])]]_vars

\* one main.py follow-up completed with the message events "x" then "y" in
\* its stream and "xy" as the assistant entry of the history, and another
\* completed after two chunks, one of them empty, with a single message event
C31_Witness ==
    \E f1, f2 \in Followups : \E c \in DOMAIN sessions :
        /\ svc = "fastapi" /\ f1 # f2
        /\ Completed(f1, c) /\ Completed(f2, c)
        /\ SelectSeq(fevents[f1], LAMBDA e : e.type = "message")
              = << Event("message", <<"x">>), Event("message", <<"y">>) >>
        /\ fstream[f2].n = 2 /\ NumFEvents(f2, "message") = 1
        /\ \E i \in DOMAIN History(c) :
              History(c)[i] = [role |-> "assistant", content |-> <<"x", "y">>]

\* ------------------------------------------------------------------ failing stream
\* C32: when the model stream of a follow-up fails (in either service, after
\* any number of chunks), that step appends one error event after the events
\* already emitted and changes no session; the follow-up then only ends,
\* emitting nothing more and changing no session: its stream has exactly one
\* error event, the last one, after the message events of the chunks that
\* were delivered, and neither its user entry nor a partial assistant entry
\* reaches the history.
C32_StreamFailureLeavesHistory ==
    /\ [](\A f \in Followups :
            /\ NumFEvents(f, "error") <= 1
            /\ NumFEvents(f, "error") = 1 =>
                  /\ fevents[f][Len(fevents[f])].type = "error"
                  /\ fpc[f] \in {"y_error", "done"}
                  /\ MessageTexts(fevents[f]) = fstream[f].full)
    /\ [][\A f \in Followups :
            /\ (fpc[f] = "stream" /\ fpc'[f] = "y_error") =>
                  /\ fevents'[f] = Append(fevents[f], ErrorEvent(ProviderError))
                  /\ fstream'[f] = fstream[f]
                  /\ sessions' = sessions
            /\ (fpc[f] = "y_error" /\ fpc'[f] # fpc[f]) =>
                  /\ fpc'[f] = "done"
                  /\ fevents'[f] = fevents[f]
                  /\ sessions' = sessions]_vars

\* a main.py follow-up whose stream failed after a chunk was delivered has
\* ended: a message event, then the error event, and a history as created
C32_Witness ==
    \E f \in Followups : \E c \in DOMAIN sessions :
        /\ svc = "fastapi"
        /\ freq[f].body.has_conversation_id /\ freq[f].body.conversation_id = c
        /\ fpc[f] = "done" /\ fcalls[f] # <<>>
        /\ NumFEvents(f, "message") >= 1 /\ NumFEvents(f, "error") = 1
        /\ fevents[f][Len(fevents[f])] = ErrorEvent(ProviderError)
        /\ Len(History(c)) = CreatedLen

\* ------------------------------------------------------------------ background task
\* the status texts run_full_analysis reports, in stage order
TaskStatuses == << StatusOf("1"), StatusOf("2"), StatusOf("3") >>

\* states i-2..i of the task r are the PROGRESS states of the three stages
ThreeStagesBefore(r, i) ==
    /\ i >= 4
    /\ \A k \in 1..3 : events[r][i - 4 + k] = Event("PROGRESS", TaskStatuses[k])

\* C33: run_full_analysis terminates for every query (given that the worker
\* keeps running and the model calls return or raise): it is executed at most
\* max_retries + 1 = 4 times; each execution reports its PROGRESS states in
\* stage order starting from Stage 1; SUCCESS comes only at the end of an
\* execution that reported all three stages, with step_1_result and
\* step_2_result being the texts that execution passed on to Stage 2 and
\* Stage 3 and with the validated analysis; a task that does not succeed ends
\* in FAILURE, and only after its fourth execution.
C33_TaskTerminates ==
    /\ [](svc = "celery" => \A r \in Runs :
            /\ Executions(r) <= task_max_retries + 1
            /\ NumEvents(r, "RETRY") = attempt[r]
            /\ \A i \in DOMAIN events[r] :
                  /\ events[r][i].type = "PROGRESS" =>
                        IF i = 1 \/ events[r][i - 1].type = "RETRY"
                        THEN events[r][i].content = TaskStatuses[1]
                        ELSE \E k \in 1..2 : /\ events[r][i - 1] = Event("PROGRESS", TaskStatuses[k])
                                             /\ events[r][i].content = TaskStatuses[k + 1]
                  /\ events[r][i].type = "SUCCESS" =>
                        /\ i = Len(events[r]) /\ pc[r] = "done"
                        /\ ThreeStagesBefore(r, i)
                        /\ DOMAIN events[r][i].content
                              = {"step_1_result", "step_2_result", "analysis_result"}
                        /\ calls[r][Len(calls[r]) - 1].text
                              = tasks_compose_step_two_query(events[r][i].content.step_1_result)
                        /\ calls[r][Len(calls[r])].text
                              = tasks_compose_step_three_query(events[r][i].content.step_2_result)
                  /\ events[r][i].type = "FAILURE" =>
                        /\ i = Len(events[r]) /\ pc[r] = "done"
                        /\ Executions(r) = task_max_retries + 1
            /\ pc[r] = "done" => NumEvents(r, "SUCCESS") + NumEvents(r, "FAILURE") = 1)
    /\ \A r \in Runs : (svc = "celery" /\ pc[r] = "queued") ~> (pc[r] = "done")

\* a task that failed in three executions and returned its result from the fourth
C33_Witness ==
    \E r \in Runs :
        /\ svc = "celery" /\ pc[r] = "done"
        /\ NumEvents(r, "RETRY") = task_max_retries
        /\ Executions(r) = task_max_retries + 1
        /\ events[r][Len(events[r])].type = "SUCCESS"
        /\ ThreeStagesBefore(r, Len(events[r]))

====
